---------------------------- MODULE Spec2Model ----------------------------
(***************************************************************************)
(* Model Intake & Trust Pipeline of HF-model-feed.                         *)
(*                                                                         *)
(* Strings that the code takes apart (namespaces, model ids) are sequences *)
(* of tokens: a letter token is one character ("a", "A", ...), "/" is the  *)
(* separator, " " is whitespace and "hf" stands for the text               *)
(* "huggingface.co", so that "huggingface.co/" is "hf" followed by "/".    *)
(***************************************************************************)
EXTENDS Integers, Sequences, FiniteSets, TLC

VARIABLES
    \* namespace_policy module globals
    DYNAMIC_BLACKLIST, BLACKLIST, DYNAMIC_WHITELIST, WHITELIST,
    \* last classify_namespace call made by a direct caller of the policy module
    cls,
    \* threads calling the policy module: position, locals, and the two locks
    th_pc, th_loc, BLACKLIST_LOCK, WHITELIST_LOCK,
    \* what each membership test of a thread's classify_namespace call saw
    th_seen,
    \* persisted store (database.py): models, authors, dynamic_blacklist, metadata.last_run,
    \* dynamic_whitelist
    db_models, db_authors, db_dynbl, db_last_run, db_dynwl,
    \* the registry: last-modified stamp of every model; the clock (days); the run number
    remote, now, run,
    \* main(): --dry-run, position, candidates, processing_queue and the index of the
    \* queue entry the loop is at
    dry_run, pc, candidates, queue, qi,
    \* main(): stats, author_run_cache, seen_signatures, processed_models
    stats, author_run_cache, seen_signatures, processed_models,
    \* main(): the locals of the loop body for the candidate in hand, with the calls it
    \* made and the gate results it computed
    cur,
    \* what the run has done so far: learning pass, report, persisted state at its start
    hist

policyVars == <<DYNAMIC_BLACKLIST, BLACKLIST, DYNAMIC_WHITELIST, WHITELIST>>
concVars == <<th_pc, th_loc, BLACKLIST_LOCK, WHITELIST_LOCK, th_seen>>
dbVars == <<db_models, db_authors, db_dynbl, db_last_run, db_dynwl>>
worldVars == <<remote, now, run>>
runVars == <<dry_run, pc, candidates, queue, qi, stats, author_run_cache,
             seen_signatures, processed_models, cur, hist>>
mainVars == <<dbVars, worldVars, runVars>>
vars == <<policyVars, cls, concVars, mainVars>>

(***************************************************************************)
(* Bounds                                                                  *)
(***************************************************************************)
\* largest number of entries in one argument of set_dynamic_blacklist / _whitelist
MaxSetSize == 2
\* number of runs of main() in one behaviour
MaxRuns == 2
\* largest number of unique candidates of one run (the feeds' --limit)
MaxCandidates == 2
\* largest last-modified stamp of the registry
MaxExtras == 1

(***************************************************************************)
(* String helpers (Python str methods on token sequences)                  *)
(***************************************************************************)
WS == {" "}

Lower(c) ==
    CASE c = "A" -> "a"
      [] c = "B" -> "b"
      [] c = "C" -> "c"
      [] c = "Q" -> "q"
      [] OTHER -> c

\* str.lower()
LowerStr(s) == [i \in 1..Len(s) |-> Lower(s[i])]

RECURSIVE LStrip(_, _)
\* str.lstrip(chars)
LStrip(s, T) ==
    IF s # <<>> /\ Head(s) \in T THEN LStrip(Tail(s), T) ELSE s

RECURSIVE RStrip(_, _)
\* str.rstrip(chars)
RStrip(s, T) ==
    IF s # <<>> /\ s[Len(s)] \in T THEN RStrip(SubSeq(s, 1, Len(s) - 1), T) ELSE s

\* str.strip(chars)
Strip(s, T) == RStrip(LStrip(s, T), T)

RECURSIVE JoinSplit(_, _)
\* " ".join(s.split()): blank runs collapsed to one blank, none at either end
JoinSplit(s, acc) ==
    IF s = <<>> THEN RStrip(acc, WS)
    ELSE IF Head(s) \in WS
    THEN JoinSplit(Tail(s), IF acc = <<>> \/ acc[Len(acc)] = " " THEN acc
                            ELSE Append(acc, " "))
    ELSE JoinSplit(Tail(s), Append(acc, Head(s)))

\* positions of the separator "/" in s
SlashAt(s) == {i \in 1..Len(s) : s[i] = "/"}

\* positions where "huggingface.co/" starts in s
HostAt(s) == {i \in 1..(Len(s) - 1) : s[i] = "hf" /\ s[i + 1] = "/"}

Min(S) == CHOOSE x \in S : \A y \in S : x <= y

\* s.split("/", 1)[0]
BeforeFirstSlash(s) == SubSeq(s, 1, Min(SlashAt(s)) - 1)

\* s.split("huggingface.co/", 1)[1]
AfterFirstHost(s) == SubSeq(s, Min(HostAt(s)) + 2, Len(s))

(***************************************************************************)
(* namespace_policy.py                                                     *)
(***************************************************************************)
normalize_namespace(ns) ==
    LET s0 == LowerStr(Strip(ns, WS))
        s1 == IF HostAt(s0) # {} THEN Strip(AfterFirstHost(s0), {"/"}) ELSE s0
        s2 == IF SlashAt(s1) # {} THEN Strip(BeforeFirstSlash(s1), WS) ELSE s1
    IN  s2

\* config.BLACKLIST_NAMESPACES and config.WHITELIST_NAMESPACES after the
\* HF_BLACKLIST / HF_WHITELIST overrides; "c" is configured on both lists
BLACKLIST_NAMESPACES == {<<"b">>, <<"c">>}
WHITELIST_NAMESPACES == {<<"Q">>, <<"C">>}

BASE_BLACKLIST == {normalize_namespace(x) : x \in BLACKLIST_NAMESPACES}
BASE_WHITELIST == {normalize_namespace(x) : x \in WHITELIST_NAMESPACES}

\* the loop of set_dynamic_blacklist / set_dynamic_whitelist: normalized, non-empty keys
NormalizedKeys(namespaces) ==
    {normalize_namespace(ns) : ns \in namespaces} \ {<<>>}

\* BLACKLIST = BASE_BLACKLIST | DYNAMIC_BLACKLIST
CombineBlacklist(dyn) == BASE_BLACKLIST \cup dyn

\* WHITELIST = BASE_WHITELIST | DYNAMIC_WHITELIST
CombineWhitelist(dyn) == BASE_WHITELIST \cup dyn

ClassifyWhitelistFirst(bl, wl, ns) ==
    LET key == normalize_namespace(ns)
    IN  IF key \in wl THEN <<"allow_whitelist", "allow:whitelisted_namespace">>
        ELSE IF key \in bl THEN <<"deny_blacklist", "skip:blacklisted_namespace">>
        ELSE <<"allow", "None">>
\* classify_namespace on the combined sets bl, wl: <<decision, reason>>
ClassifyIn(bl, wl, ns) ==
    LET key == normalize_namespace(ns)
    IN  IF key \in bl THEN <<"deny_blacklist", "skip:blacklisted_namespace">>
        ELSE IF key \in wl THEN <<"allow_whitelist", "allow:whitelisted_namespace">>
        ELSE <<"allow", "None">>

classify_namespace(ns) == ClassifyIn(BLACKLIST, WHITELIST, ns)

\* raw strings handed to the policy module
RawNamespaces ==
    { <<"a">>, <<"A">>, <<" ", "a", " ">>, <<"a", "/", "m">>,
      <<"hf", "/", "a", "/", "m">>, <<"hf", "/", "/", "Q">>,
      <<"b">>, <<"B">>, <<"c">>, <<"C">>, <<"q">>, <<"Q">>,
      <<"/", "a">>, <<" ">>, <<>> }

SetArgs == {S \in SUBSET RawNamespaces : Cardinality(S) <= MaxSetSize}

\* no classify_namespace call recorded
NoCall == [arg |-> <<>>, decision |-> "none", reason |-> "None"]

PolicyInit ==
    /\ DYNAMIC_BLACKLIST = {}
    /\ DYNAMIC_WHITELIST = {}
    /\ BLACKLIST = BASE_BLACKLIST
    /\ WHITELIST = BASE_WHITELIST

set_dynamic_blacklist(namespaces) ==
    /\ DYNAMIC_BLACKLIST' = NormalizedKeys(namespaces)
    /\ BLACKLIST' = CombineBlacklist(NormalizedKeys(namespaces))
    /\ UNCHANGED <<DYNAMIC_WHITELIST, WHITELIST>>

set_dynamic_whitelist(namespaces) ==
    /\ DYNAMIC_WHITELIST' = NormalizedKeys(namespaces)
    /\ WHITELIST' = CombineWhitelist(NormalizedKeys(namespaces))
    /\ UNCHANGED <<DYNAMIC_BLACKLIST, BLACKLIST>>

(***************************************************************************)
(* Data of a run (main.py, run_stats.py, database.py)                      *)
(***************************************************************************)
\* Python None where a string is expected
NoneStr == <<"None">>
\* a missing lastModified (getattr(model_info, "lastModified", None))
NoStamp == 0
\* SQL NULL in a text column
Null == <<>>

\* Optional[int] None
NoCount == -1

\* model ids of the registry: two of one unlisted namespace, one of an allow-listed
\* namespace (config spells it "Q", ids may spell it either way), one of a statically
\* denied namespace, one without a namespace
Models ==
    { <<"a", "/", "x">>, <<"a", "/", "y">>, <<"Q", "/", "x">>, <<"q", "/", "y">>,
      <<"b", "/", "x">>, <<"x">> }

\* namespace = model_id.split("/")[0] if "/" in model_id else None
NamespaceOf(model_id) ==
    IF SlashAt(model_id) # {} THEN BeforeFirstSlash(model_id) ELSE NoneStr

\* uploader = namespace or "unknown"
UploaderOf(model_id) ==
    IF NamespaceOf(model_id) \in {NoneStr, <<>>} THEN <<"unknown">> ELSE NamespaceOf(model_id)

Namespaces == {NamespaceOf(m) : m \in Models} \ {NoneStr}

\* config.EXCLUDED_NAMESPACES ("thireus", which config also puts on the deny-list)
EXCLUDED_NAMESPACES == {<<"b">>}

\* the sqlite3 adapter writes a datetime as ISO text; dateutil.parser.parse reads it back
StoreTimestamp(t) == IF t = NoStamp THEN Null ELSE <<"iso", t>>
ParseTimestamp(text) == text[2]

AbsentModel == [present |-> FALSE, last_modified |-> Null, trust_tier |-> 0,
                author_kind |-> "None", status |-> "None",
                llm_analysis |-> [specialist_score |-> 0, confidence |-> "None"],
                report_notes |-> <<>>]
AbsentAuthor == [present |-> FALSE, kind |-> "None", num_followers |-> -1,
                 is_pro |-> 0, last_checked |-> 0]

\* RunStats()
NewStats ==
    [candidates_total |-> 0, queued |-> 0, noop_unchanged |-> 0, processed |-> 0,
     skipped |-> 0, warned |-> 0, llm_analyzed |-> 0, llm_succeeded |-> 0,
     llm_failed |-> 0, skip_reasons |-> <<>>, skip_items |-> <<>>, warn_items |-> <<>>,
     skip_reasons_by_uploader |-> <<>>, uploaders |-> <<>>]

\* len(self.skip_items) < 80, len(self.warn_items) < 80
SKIP_ITEMS_MAX == 80
WARN_ITEMS_MAX == 80

\* Counter[key] += 1 on a counter kept as a function from its keys
Inc(counter, key) ==
    IF key \in DOMAIN counter THEN [counter EXCEPT ![key] = @ + 1]
    ELSE [k \in DOMAIN counter \cup {key} |-> IF k = key THEN 1 ELSE counter[k]]

\* counter.get(key, 0)
Get(counter, key) == IF key \in DOMAIN counter THEN counter[key] ELSE 0

\* a skip that is tallied by reason only, without counting the candidate
RecordSkipReasonOnly(st, model_id, reason, author) ==
    [st EXCEPT !.skip_reasons = Inc(@, reason)]

\* RunStats.record_skip
record_skip(st, model_id, reason, author) ==
    [st EXCEPT
        !.skipped = @ + 1,
        !.skip_reasons = Inc(@, reason),
        !.skip_reasons_by_uploader =
            IF author # <<>> /\ author # NoneStr THEN Inc(@, <<author, reason>>) ELSE @,
        !.uploaders =
            IF author # <<>> /\ author # NoneStr /\ \A i \in 1..Len(@) : @[i] # author
            THEN Append(@, author) ELSE @,
        !.skip_items =
            IF Len(@) < SKIP_ITEMS_MAX
            THEN Append(@, [model_id |-> model_id, reason |-> reason, author |-> author])
            ELSE @]

\* RunStats.record_warn
record_warn(st, model_id, reason, author) ==
    [st EXCEPT
        !.warned = @ + 1,
        !.warn_items =
            IF Len(@) < WARN_ITEMS_MAX
            THEN Append(@, [model_id |-> model_id, reason |-> reason, author |-> author])
            ELSE @]

\* the loop-body locals before the first candidate
NoCur ==
    [id |-> <<>>, namespace |-> NoneStr, uploader |-> <<>>, decision |-> "none",
     is_whitelisted |-> FALSE, author_kind |-> "unknown", trust_tier |-> 1,
     auth_data |-> AbsentAuthor,
     file_details |-> [listed |-> FALSE, files |-> <<>>], filter_trace |-> <<>>,
     calls |-> {}, gates |-> {}, raised |-> FALSE, outcome |-> "none",
     org_data |-> "notcalled", user_data |-> "notcalled", skips |-> 0, warns |-> 0,
     content |-> <<>>, sig |-> <<>>, canonical |-> <<>>, readme |-> "notcalled",
     llm |-> [result |-> "notcalled", specialist_score |-> 0, confidence |-> "None",
              evidence |-> <<>>, malformed |-> FALSE],
     llm_result |-> [result |-> "notcalled", specialist_score |-> 0, confidence |-> "None",
                     evidence |-> <<>>, malformed |-> FALSE],
     report_notes |-> <<>>]

NoHist == [learned |-> FALSE, promoted |-> {}, first_sig |-> <<>>, reported |-> FALSE,
           visited |-> 0, raised |-> {},
           models_at_start |-> <<>>, authors_at_start |-> <<>>, changed |-> {},
           indeterminate |-> {}, prev_ids |-> {}, prev_dry |-> TRUE,
           interrupted |-> FALSE, last_run_at_start |-> NoStamp]

\* a database file that was just created
DbEmpty ==
    /\ db_models = [m \in Models |-> AbsentModel]
    /\ db_authors = [n \in Namespaces |-> AbsentAuthor]
    /\ db_dynbl = <<>>
    /\ db_last_run = NoStamp
    /\ db_dynwl = <<>>

\* the registry, the clock and main() before its first run; the models of the
\* registry were created within the day before the first run
ProcessIdle ==
    /\ remote = [m \in Models |-> [created_at |-> 2, lastModified |-> 2]]
    /\ now = 1
    /\ run = 0
    /\ dry_run = FALSE
    /\ pc = "idle"
    /\ candidates = <<>>
    /\ queue = <<>>
    /\ qi = 0
    /\ stats = NewStats
    /\ author_run_cache = <<>>
    /\ seen_signatures = <<>>
    /\ processed_models = <<>>
    /\ cur = NoCur
    /\ hist = NoHist

MainIdle == DbEmpty /\ ProcessIdle

(***************************************************************************)
(* Threads of one process calling namespace_policy concurrently            *)
(***************************************************************************)
Reader == "reader"
BlWriter == "bl_writer"
WlWriter == "wl_writer"
Threads == {Reader, BlWriter, WlWriter}

NoSeen == [bl |-> {<<"-">>}, bl_dyn |-> {<<"-">>}, bl_pre |-> {<<"-">>},
           wl |-> {<<"-">>}, wl_dyn |-> {<<"-">>}, wl_pre |-> {<<"-">>},
           decision |-> "none", valid |-> {}]

ConcIdle ==
    /\ th_pc = [t \in Threads |-> "idle"]
    /\ th_loc = [t \in Threads |-> <<>>]
    /\ BLACKLIST_LOCK = "free"
    /\ WHITELIST_LOCK = "free"
    /\ th_seen = NoSeen

\* arguments of the concurrent calls
ConcSetArgs == SUBSET {<<"A">>, <<"c">>, <<" ">>}
ConcNamespaces == {<<"a">>, <<"C">>, <<"Q">>}

\* the decisions that were right for both combined lists at some instant of the
\* classify_namespace call in progress, with the lists as they now stand
ValidNow(seen, bl, wl) ==
    IF th_pc[Reader] \in {"acquire_bl", "test_bl", "acquire_wl", "test_wl"}
    THEN [seen EXCEPT !.valid = @ \cup {ClassifyIn(bl, wl, th_loc[Reader])[1]}]
    ELSE seen

AcquireNoLock(lock, t) == TRUE
\* threading.Lock.acquire: blocks while another thread holds the lock
Acquire(lock, t) == lock = "free"

\* set_dynamic_blacklist, lines 34-38: the normalized set is built before the lock
BlWriterStart ==
    /\ th_pc[BlWriter] = "idle"
    /\ \E namespaces \in ConcSetArgs :
        th_loc' = [th_loc EXCEPT ![BlWriter] = NormalizedKeys(namespaces)]
    /\ th_pc' = [th_pc EXCEPT ![BlWriter] = "acquire"]
    /\ UNCHANGED <<policyVars, cls, BLACKLIST_LOCK, WHITELIST_LOCK, th_seen>>
    /\ UNCHANGED mainVars

\* with _BLACKLIST_LOCK:
BlWriterAcquire ==
    /\ th_pc[BlWriter] = "acquire"
    /\ Acquire(BLACKLIST_LOCK, BlWriter)
    /\ BLACKLIST_LOCK' = BlWriter
    /\ th_pc' = [th_pc EXCEPT ![BlWriter] = "store_dynamic"]
    /\ UNCHANGED <<policyVars, cls, th_loc, WHITELIST_LOCK, th_seen>>
    /\ UNCHANGED mainVars

\* DYNAMIC_BLACKLIST = normalized
BlWriterStoreDynamic ==
    /\ th_pc[BlWriter] = "store_dynamic"
    /\ DYNAMIC_BLACKLIST' = th_loc[BlWriter]
    /\ th_pc' = [th_pc EXCEPT ![BlWriter] = "store_combined"]
    /\ UNCHANGED <<BLACKLIST, DYNAMIC_WHITELIST, WHITELIST, cls, th_loc,
                   BLACKLIST_LOCK, WHITELIST_LOCK, th_seen>>
    /\ UNCHANGED mainVars

\* BLACKLIST = BASE_BLACKLIST | DYNAMIC_BLACKLIST
BlWriterStoreCombined ==
    /\ th_pc[BlWriter] = "store_combined"
    /\ BLACKLIST' = CombineBlacklist(DYNAMIC_BLACKLIST)
    /\ th_pc' = [th_pc EXCEPT ![BlWriter] = "release"]
    /\ th_seen' = ValidNow(th_seen, CombineBlacklist(DYNAMIC_BLACKLIST), WHITELIST)
    /\ UNCHANGED <<DYNAMIC_BLACKLIST, DYNAMIC_WHITELIST, WHITELIST, cls, th_loc,
                   BLACKLIST_LOCK, WHITELIST_LOCK>>
    /\ UNCHANGED mainVars

\* leaving the with block
BlWriterRelease ==
    /\ th_pc[BlWriter] = "release"
    /\ BLACKLIST_LOCK' = IF BLACKLIST_LOCK = BlWriter THEN "free" ELSE BLACKLIST_LOCK
    /\ th_pc' = [th_pc EXCEPT ![BlWriter] = "idle"]
    /\ th_loc' = [th_loc EXCEPT ![BlWriter] = <<>>]
    /\ UNCHANGED <<policyVars, cls, WHITELIST_LOCK, th_seen>>
    /\ UNCHANGED mainVars

\* set_dynamic_whitelist, lines 65-69
WlWriterStart ==
    /\ th_pc[WlWriter] = "idle"
    /\ \E namespaces \in ConcSetArgs :
        th_loc' = [th_loc EXCEPT ![WlWriter] = NormalizedKeys(namespaces)]
    /\ th_pc' = [th_pc EXCEPT ![WlWriter] = "acquire"]
    /\ UNCHANGED <<policyVars, cls, BLACKLIST_LOCK, WHITELIST_LOCK, th_seen>>
    /\ UNCHANGED mainVars

\* with _WHITELIST_LOCK:
WlWriterAcquire ==
    /\ th_pc[WlWriter] = "acquire"
    /\ Acquire(WHITELIST_LOCK, WlWriter)
    /\ WHITELIST_LOCK' = WlWriter
    /\ th_pc' = [th_pc EXCEPT ![WlWriter] = "store_dynamic"]
    /\ UNCHANGED <<policyVars, cls, th_loc, BLACKLIST_LOCK, th_seen>>
    /\ UNCHANGED mainVars

\* DYNAMIC_WHITELIST = normalized
WlWriterStoreDynamic ==
    /\ th_pc[WlWriter] = "store_dynamic"
    /\ DYNAMIC_WHITELIST' = th_loc[WlWriter]
    /\ th_pc' = [th_pc EXCEPT ![WlWriter] = "store_combined"]
    /\ UNCHANGED <<DYNAMIC_BLACKLIST, BLACKLIST, WHITELIST, cls, th_loc,
                   BLACKLIST_LOCK, WHITELIST_LOCK, th_seen>>
    /\ UNCHANGED mainVars

\* WHITELIST = BASE_WHITELIST | DYNAMIC_WHITELIST
WlWriterStoreCombined ==
    /\ th_pc[WlWriter] = "store_combined"
    /\ WHITELIST' = CombineWhitelist(DYNAMIC_WHITELIST)
    /\ th_pc' = [th_pc EXCEPT ![WlWriter] = "release"]
    /\ th_seen' = ValidNow(th_seen, BLACKLIST, CombineWhitelist(DYNAMIC_WHITELIST))
    /\ UNCHANGED <<DYNAMIC_BLACKLIST, BLACKLIST, DYNAMIC_WHITELIST, cls, th_loc,
                   BLACKLIST_LOCK, WHITELIST_LOCK>>
    /\ UNCHANGED mainVars

WlWriterRelease ==
    /\ th_pc[WlWriter] = "release"
    /\ WHITELIST_LOCK' = IF WHITELIST_LOCK = WlWriter THEN "free" ELSE WHITELIST_LOCK
    /\ th_pc' = [th_pc EXCEPT ![WlWriter] = "idle"]
    /\ th_loc' = [th_loc EXCEPT ![WlWriter] = <<>>]
    /\ UNCHANGED <<policyVars, cls, BLACKLIST_LOCK, th_seen>>
    /\ UNCHANGED mainVars

\* classify_namespace, line 90: key = normalize_namespace(ns)
ReaderStart ==
    /\ th_pc[Reader] = "idle"
    /\ \E ns \in ConcNamespaces :
        /\ th_loc' = [th_loc EXCEPT ![Reader] = normalize_namespace(ns)]
        /\ th_seen' = [NoSeen EXCEPT !.valid =
                            {ClassifyIn(BLACKLIST, WHITELIST, ns)[1]}]
    /\ th_pc' = [th_pc EXCEPT ![Reader] = "acquire_bl"]
    /\ UNCHANGED <<policyVars, cls, BLACKLIST_LOCK, WHITELIST_LOCK>>
    /\ UNCHANGED mainVars

\* with _BLACKLIST_LOCK:
ReaderAcquireBl ==
    /\ th_pc[Reader] = "acquire_bl"
    /\ Acquire(BLACKLIST_LOCK, Reader)
    /\ BLACKLIST_LOCK' = Reader
    /\ th_pc' = [th_pc EXCEPT ![Reader] = "test_bl"]
    \* the combined set as the last completed reload left it
    /\ th_seen' = [th_seen EXCEPT !.bl_pre = BLACKLIST]
    /\ UNCHANGED <<policyVars, cls, th_loc, WHITELIST_LOCK>>
    /\ UNCHANGED mainVars

\* if key in BLACKLIST: return deny (the lock is released on leaving the block)
ReaderTestBl ==
    /\ th_pc[Reader] = "test_bl"
    /\ th_seen' = [th_seen EXCEPT !.bl = BLACKLIST, !.bl_dyn = DYNAMIC_BLACKLIST,
                       !.decision = IF th_loc[Reader] \in BLACKLIST
                                    THEN "deny_blacklist" ELSE "none"]
    /\ th_pc' = [th_pc EXCEPT ![Reader] =
                    IF th_loc[Reader] \in BLACKLIST THEN "returned" ELSE "acquire_wl"]
    /\ BLACKLIST_LOCK' = IF BLACKLIST_LOCK = Reader THEN "free" ELSE BLACKLIST_LOCK
    /\ UNCHANGED <<policyVars, cls, th_loc, WHITELIST_LOCK>>
    /\ UNCHANGED mainVars

\* with _WHITELIST_LOCK:
ReaderAcquireWl ==
    /\ th_pc[Reader] = "acquire_wl"
    /\ Acquire(WHITELIST_LOCK, Reader)
    /\ WHITELIST_LOCK' = Reader
    /\ th_pc' = [th_pc EXCEPT ![Reader] = "test_wl"]
    /\ th_seen' = [th_seen EXCEPT !.wl_pre = WHITELIST]
    /\ UNCHANGED <<policyVars, cls, th_loc, BLACKLIST_LOCK>>
    /\ UNCHANGED mainVars

\* if key in WHITELIST: return allow_whitelist; return allow
ReaderTestWl ==
    /\ th_pc[Reader] = "test_wl"
    /\ th_seen' = [th_seen EXCEPT !.wl = WHITELIST, !.wl_dyn = DYNAMIC_WHITELIST,
                       !.decision = IF th_loc[Reader] \in WHITELIST
                                    THEN "allow_whitelist" ELSE "allow"]
    /\ th_pc' = [th_pc EXCEPT ![Reader] = "returned"]
    /\ WHITELIST_LOCK' = IF WHITELIST_LOCK = Reader THEN "free" ELSE WHITELIST_LOCK
    /\ UNCHANGED <<policyVars, cls, th_loc, BLACKLIST_LOCK>>
    /\ UNCHANGED mainVars

\* the caller takes the result
ReaderReturn ==
    /\ th_pc[Reader] = "returned"
    /\ th_pc' = [th_pc EXCEPT ![Reader] = "idle"]
    /\ th_loc' = [th_loc EXCEPT ![Reader] = <<>>]
    /\ UNCHANGED <<policyVars, cls, BLACKLIST_LOCK, WHITELIST_LOCK, th_seen>>
    /\ UNCHANGED mainVars

InitConc ==
    /\ PolicyInit
    /\ cls = NoCall
    /\ ConcIdle
    /\ MainIdle

NextConc ==
    \/ BlWriterStart \/ BlWriterAcquire \/ BlWriterStoreDynamic
    \/ BlWriterStoreCombined \/ BlWriterRelease
    \/ WlWriterStart \/ WlWriterAcquire \/ WlWriterStoreDynamic
    \/ WlWriterStoreCombined \/ WlWriterRelease
    \/ ReaderStart \/ ReaderAcquireBl \/ ReaderTestBl
    \/ ReaderAcquireWl \/ ReaderTestWl \/ ReaderReturn

SpecConc == InitConc /\ [][NextConc]_vars

(***************************************************************************)
(* SpecPolicy: a single-threaded caller of the policy module               *)
(***************************************************************************)
CallSetDynamicBlacklist ==
    \E namespaces \in SetArgs :
        /\ set_dynamic_blacklist(namespaces)
        /\ cls' = NoCall
        /\ UNCHANGED concVars
    /\ UNCHANGED mainVars

CallSetDynamicWhitelist ==
    \E namespaces \in SetArgs :
        /\ set_dynamic_whitelist(namespaces)
        /\ cls' = NoCall
        /\ UNCHANGED concVars
    /\ UNCHANGED mainVars

CallClassify ==
    \E ns \in RawNamespaces :
        /\ cls' = [arg |-> ns,
                   decision |-> classify_namespace(ns)[1],
                   reason |-> classify_namespace(ns)[2]]
        /\ UNCHANGED <<policyVars, concVars>>
    /\ UNCHANGED mainVars

InitPolicy ==
    /\ PolicyInit
    /\ cls = NoCall
    /\ ConcIdle
    /\ MainIdle

NextPolicy ==
    \/ CallSetDynamicBlacklist
    \/ CallSetDynamicWhitelist
    \/ CallClassify

SpecPolicy == InitPolicy /\ [][NextPolicy]_vars

(***************************************************************************)
(* main.py: one run of main(), as steps of the orchestrator.               *)
(* E is the environment of the run: what the registry, the lookups, the    *)
(* analysis service and the command line may answer.                       *)
(***************************************************************************)
\* sequences without repetition over S, of length at most n
RECURSIVE SeqsUpTo(_, _)
SeqsUpTo(S, n) ==
    IF n = 0 THEN {<<>>}
    ELSE LET shorter == SeqsUpTo(S, n - 1)
         IN  shorter \cup
             {Append(q, x) : <<q, x>> \in
                 {<<q0, x0>> \in shorter \X S : \A i \in 1..Len(q0) : q0[i] # x0}}

Ids(cands) == {cands[i].id : i \in 1..Len(cands)}

\* a model object as a source yields it; a listing may carry no timestamps
InfoOf(E, model_id) ==
    [id |-> model_id,
     created_at |-> IF model_id \in E.unstamped THEN NoStamp
                    ELSE remote[model_id].created_at,
     lastModified |-> IF model_id \in E.unstamped THEN NoStamp
                      ELSE remote[model_id].lastModified]

\* fetch_new_models / fetch_recently_updated_models stop at the first model with
\* "since and stamp and stamp <= since": what they return passed this test
PassedSince(stamp, since) == ~(since # NoStamp /\ stamp # NoStamp /\ stamp <= since)

\* Database.get_last_run_timestamp: the stored watermark, or 24 hours ago when
\* there is none; a day is the unit of the clock
get_last_run_timestamp == IF db_last_run = NoStamp THEN now - 1 ELSE db_last_run

RecentFeed(E) ==
    {m \in E.models : PassedSince(InfoOf(E, m).created_at, get_last_run_timestamp)}
UpdatedFeed(E) ==
    {m \in E.models : PassedSince(InfoOf(E, m).lastModified, get_last_run_timestamp)}

AddCandidateNoDedup(cands, info) == Append(cands, info)
\* add_candidate: if info.id not in candidates: candidates[info.id] = info
AddCandidate(cands, info) ==
    IF info.id \notin Ids(cands) THEN Append(cands, info) ELSE cands

RECURSIVE AddFeed(_, _, _)
\* for m in recent_models: add_candidate(m)
AddFeed(E, cands, feed) ==
    IF feed = <<>> THEN cands
    ELSE AddFeed(E, AddCandidate(cands, InfoOf(E, Head(feed))), Tail(feed))

RECURSIVE AddExtras(_, _, _, _)
\* for mid in extra_ids: if mid not in candidates: add_candidate(get_model_info(mid))
AddExtras(E, cands, extra, resolved) ==
    IF extra = <<>> THEN cands
    ELSE LET mid == Head(extra)
             next == IF mid \notin Ids(cands) /\ mid \in resolved
                     THEN AddCandidate(cands, InfoOf(E, mid))
                     ELSE cands
         IN  AddExtras(E, next, Tail(extra), resolved)

\* Database.get_existing_ids
get_existing_ids == {m \in Models : db_models[m].present}

\* Database.get_model_last_modified: the stored text, None when the row or the value is missing
get_model_last_modified(model_id) ==
    IF db_models[model_id].present /\ db_models[model_id].last_modified # Null
    THEN db_models[model_id].last_modified
    ELSE NoneStr

ChangeReasonNotStrict(info) ==
    IF info.id \notin get_existing_ids THEN "New Discovery"
    ELSE LET db_last_mod_str == get_model_last_modified(info.id)
         IN  IF db_last_mod_str # NoneStr /\ info.lastModified # NoStamp
             THEN IF info.lastModified >= ParseTimestamp(db_last_mod_str)
                  THEN "Update Detected" ELSE ""
             ELSE IF db_last_mod_str = NoneStr THEN "Missing Timestamp" ELSE ""
\* the body of the change-detection loop: the reason to process, "" for a no-op
ChangeReason(info) ==
    IF info.id \notin get_existing_ids THEN "New Discovery"
    ELSE LET db_last_mod_str == get_model_last_modified(info.id)
         IN  IF db_last_mod_str # NoneStr /\ info.lastModified # NoStamp
             THEN IF info.lastModified > ParseTimestamp(db_last_mod_str)
                  THEN "Update Detected" ELSE ""
             ELSE IF db_last_mod_str = NoneStr THEN "Missing Timestamp" ELSE ""

RECURSIVE BuildQueue(_)
\* for model_id, model_info in candidates.items(): ... processing_queue.append(...)
BuildQueue(cands) ==
    IF cands = <<>> THEN <<>>
    ELSE LET info == Head(cands)
             reason == ChangeReason(info)
         IN  (IF reason # ""
              THEN <<[id |-> info.id, info |-> info, reason |-> reason]>>
              ELSE <<>>) \o BuildQueue(Tail(cands))

Max0(n) == IF n > 0 THEN n ELSE 0

\* main(), lines 126-155: a new process starts; the learned deny-list is loaded
Start(E) ==
    /\ pc \in {"idle", "done"}
    /\ run < MaxRuns
    /\ run < E.runs
    /\ run' = run + 1
    /\ \E d \in E.days : now' = now + d
    /\ \E flag \in E.dry : dry_run' = flag
    /\ stats' = NewStats
    /\ DYNAMIC_WHITELIST' = {}
    /\ WHITELIST' = BASE_WHITELIST
    /\ IF DOMAIN db_dynbl # {}
       THEN /\ DYNAMIC_BLACKLIST' = NormalizedKeys(DOMAIN db_dynbl)
            /\ BLACKLIST' = CombineBlacklist(NormalizedKeys(DOMAIN db_dynbl))
       ELSE /\ DYNAMIC_BLACKLIST' = {}
            /\ BLACKLIST' = BASE_BLACKLIST
    /\ candidates' = <<>>
    /\ queue' = <<>>
    /\ qi' = 0
    /\ author_run_cache' = <<>>
    /\ seen_signatures' = <<>>
    /\ processed_models' = <<>>
    /\ cur' = NoCur
    /\ hist' = [NoHist EXCEPT !.models_at_start = db_models,
                              !.authors_at_start = db_authors,
                              !.changed = hist.changed,
                              !.prev_ids = hist.prev_ids,
                              !.prev_dry = hist.prev_dry,
                              !.interrupted = hist.interrupted,
                              !.last_run_at_start = db_last_run]
    /\ pc' = "fetch"
    /\ UNCHANGED <<dbVars, remote, cls, concVars>>

\* between two runs the registry moves on: a model is modified
RegistryUpdate(E) ==
    /\ pc = "done"
    /\ run < MaxRuns
    /\ \E m \in E.mutable :
        /\ remote[m].lastModified <= now
        /\ remote' = [remote EXCEPT ![m].lastModified = now + 1]
        /\ hist' = [hist EXCEPT !.changed = @ \cup {m}]
    /\ UNCHANGED <<policyVars, cls, concVars, dbVars, now, run, dry_run, pc, candidates,
                   queue, qi, stats, author_run_cache, seen_signatures,
                   processed_models, cur>>

\* main(), lines 157-181: the four sources are fetched and merged by identity
Aggregate(E) ==
    /\ pc = "fetch"
    /\ \E recent_models \in SeqsUpTo(RecentFeed(E), MaxCandidates),
          updated_models \in SeqsUpTo(UpdatedFeed(E), MaxCandidates),
          extra_ids \in SeqsUpTo(E.models, MaxExtras) :
       \E resolved \in SUBSET {extra_ids[i] : i \in 1..Len(extra_ids)} :
        LET c1 == AddFeed(E, <<>>, recent_models)
            c2 == AddFeed(E, c1, updated_models)
            c3 == AddExtras(E, c2, extra_ids, resolved)
        IN  /\ Len(c3) <= MaxCandidates
            /\ candidates' = c3
            /\ stats' = [stats EXCEPT !.candidates_total = @ + Len(c3)]
    /\ pc' = "detect"
    /\ UNCHANGED <<policyVars, cls, concVars, dbVars, worldVars, dry_run, queue, qi,
                   author_run_cache, seen_signatures, processed_models, cur, hist>>

\* main(), lines 183-213: change detection against the persisted model table
DetectChanges ==
    /\ pc = "detect"
    /\ queue' = BuildQueue(candidates)
    /\ stats' = [stats EXCEPT
                    !.queued = Len(BuildQueue(candidates)),
                    !.noop_unchanged = Max0(Len(candidates) - Len(BuildQueue(candidates)))]
    /\ qi' = 1
    /\ pc' = "loop"
    /\ UNCHANGED <<policyVars, cls, concVars, dbVars, worldVars, dry_run, candidates,
                   author_run_cache, seen_signatures, processed_models, cur, hist>>

\* age_days < 14
AUTHOR_FRESH_DAYS == 14
\* followers >= 200
TIER2_MIN_FOLLOWERS == 200

\* what get_org_details / get_user_overview return: a record (HTTP 200), {} (HTTP 404)
\* or None (anything else)
LookupRecord(followers, pro) == [state |-> "record", numFollowers |-> followers, isPro |-> pro]
LookupEmpty == [state |-> "empty", numFollowers |-> -1, isPro |-> FALSE]
LookupNone == [state |-> "none", numFollowers |-> -1, isPro |-> FALSE]

\* Database.get_author
get_author(namespace) == db_authors[namespace]

\* a freshness test that still accepts a record on its fourteenth day
CacheValidAtWindow(auth_entry) ==
    /\ auth_entry.present
    /\ auth_entry.kind \in {"user", "org"}
    /\ now - auth_entry.last_checked <= AUTHOR_FRESH_DAYS

\* main(), lines 252-264: is the persisted author record usable
CacheValid(auth_entry) ==
    /\ auth_entry.present
    /\ auth_entry.kind \in {"user", "org"}
    /\ now - auth_entry.last_checked < AUTHOR_FRESH_DAYS
    /\ auth_entry.kind # "unknown"

\* the row Database.upsert_author writes for auth_data
AuthorRow(kind, followers, pro) ==
    [present |-> TRUE, kind |-> kind, num_followers |-> followers, is_pro |-> pro,
     last_checked |-> now]

ResolveAuthorCachesIndeterminate(auth_entry, org_data, user_data) ==
    IF CacheValid(auth_entry)
    THEN [kind |-> auth_entry.kind, auth_data |-> auth_entry, has_data |-> TRUE,
          upsert |-> FALSE, calls |-> {"get_author"}]
    ELSE IF org_data.state = "record"
    THEN [kind |-> "org", auth_data |-> AuthorRow("org", -1, 0), has_data |-> TRUE,
          upsert |-> TRUE, calls |-> {"get_author", "get_org_details", "upsert_author"}]
    ELSE IF user_data.state = "record" /\ org_data.state = "empty"
    THEN [kind |-> "user",
          auth_data |-> AuthorRow("user", user_data.numFollowers,
                                  IF user_data.isPro THEN 1 ELSE 0),
          has_data |-> TRUE, upsert |-> TRUE,
          calls |-> {"get_author", "get_org_details", "get_user_overview",
                     "upsert_author"}]
    ELSE [kind |-> "unknown", auth_data |-> AuthorRow("unknown", -1, 0),
          has_data |-> TRUE, upsert |-> TRUE,
          calls |-> {"get_author", "get_org_details", "upsert_author"}
                    \cup (IF org_data.state = "empty" THEN {"get_user_overview"} ELSE {})]
\* main(), lines 250-298: author kind and data from the cache or the two lookups;
\* upsert says whether db.upsert_author(auth_data) is called
ResolveAuthor(auth_entry, org_data, user_data) ==
    IF CacheValid(auth_entry)
    THEN [kind |-> auth_entry.kind, auth_data |-> auth_entry, has_data |-> TRUE,
          upsert |-> FALSE, calls |-> {"get_author"}]
    ELSE IF org_data.state = "record"
    THEN [kind |-> "org", auth_data |-> AuthorRow("org", -1, 0), has_data |-> TRUE,
          upsert |-> TRUE, calls |-> {"get_author", "get_org_details", "upsert_author"}]
    ELSE IF org_data.state = "empty"
    THEN IF user_data.state = "record"
         THEN [kind |-> "user",
               auth_data |-> AuthorRow("user", user_data.numFollowers,
                                       IF user_data.isPro THEN 1 ELSE 0),
               has_data |-> TRUE, upsert |-> TRUE,
               calls |-> {"get_author", "get_org_details", "get_user_overview",
                          "upsert_author"}]
         ELSE IF user_data.state = "empty"
         THEN [kind |-> "unknown", auth_data |-> AuthorRow("unknown", -1, 0),
               has_data |-> TRUE, upsert |-> TRUE,
               calls |-> {"get_author", "get_org_details", "get_user_overview",
                          "upsert_author"}]
         ELSE [kind |-> "unknown", auth_data |-> AbsentAuthor, has_data |-> FALSE,
               upsert |-> FALSE,
               calls |-> {"get_author", "get_org_details", "get_user_overview"}]
    ELSE [kind |-> "unknown", auth_data |-> AbsentAuthor, has_data |-> FALSE,
          upsert |-> FALSE, calls |-> {"get_author", "get_org_details"}]

TierIgnoresWhitelist(author_kind, has_data, auth_data, is_whitelisted) ==
    IF author_kind = "org" THEN 3
    ELSE IF author_kind = "user" /\ has_data
    THEN IF (IF auth_data.num_followers = -1 THEN 0 ELSE auth_data.num_followers)
                >= TIER2_MIN_FOLLOWERS
            \/ auth_data.is_pro # 0
         THEN 2 ELSE 1
    ELSE 1
\* main(), lines 300-310: the trust tier
Tier(author_kind, has_data, auth_data, is_whitelisted) ==
    IF is_whitelisted THEN 3
    ELSE IF author_kind = "org" THEN 3
    ELSE IF author_kind = "user" /\ has_data
    THEN IF (IF auth_data.num_followers = -1 THEN 0 ELSE auth_data.num_followers)
                >= TIER2_MIN_FOLLOWERS
            \/ auth_data.is_pro # 0
         THEN 2 ELSE 1
    ELSE 1

\* skip(...) followed by continue, from stats st: the candidate is done
SkipAndContinue(c, st, reason, author) ==
    /\ stats' = record_skip(st, c.id, reason, author)
    /\ cur' = [c EXCEPT !.outcome = reason, !.skips = @ + 1]
    /\ qi' = qi + 1
    /\ pc' = "loop"
    /\ hist' = [hist EXCEPT !.visited = @ + 1]

HandleExceptionAborts(c, st) ==
    /\ stats' = st
    /\ cur' = [c EXCEPT !.outcome = "skip:exception", !.raised = TRUE]
    /\ qi' = qi
    /\ pc' = "crashed"
    /\ hist' = [hist EXCEPT !.raised = @ \cup {qi}]
\* the except branch of the loop body: skip(model_id, uploader, "skip:exception"); continue
HandleException(c, st) ==
    /\ stats' = record_skip(st, c.id, "skip:exception", c.uploader)
    /\ cur' = [c EXCEPT !.outcome = "skip:exception", !.raised = TRUE, !.skips = @ + 1]
    /\ qi' = qi + 1
    /\ pc' = "loop"
    /\ hist' = [hist EXCEPT !.visited = @ + 1, !.raised = @ \cup {qi}]

\* the locals at the top of the loop body
FreshCur(item) ==
    [NoCur EXCEPT !.id = item.id,
                  !.namespace = NamespaceOf(item.id),
                  !.uploader = UploaderOf(item.id)]

\* namespace.lower() in {x.lower() for x in EXCLUDED_NAMESPACES}
IsExcluded(namespace) ==
    /\ namespace \notin {NoneStr, <<>>}
    /\ LowerStr(namespace) \in {LowerStr(x) : x \in EXCLUDED_NAMESPACES}

NamespaceGateExcludedOnly(verdict, namespace) ==
    IF IsExcluded(namespace) THEN "skip:excluded_namespace" ELSE ""
\* main(), lines 234-240: the skip reason of the namespace policy, "" to go on
NamespaceGate(verdict, namespace) ==
    IF verdict[1] = "deny_blacklist"
    THEN (IF verdict[2] \notin {"None", ""} THEN verdict[2]
          ELSE "skip:blacklisted_namespace")
    ELSE IF IsExcluded(namespace) THEN "skip:excluded_namespace"
    ELSE ""

\* a run that keeps no author result in memory
CachePutNothing(cache, namespace, entry) == cache

\* author_run_cache[namespace] = (author_kind, auth_data, trust_tier)
CachePut(cache, namespace, entry) ==
    [n \in DOMAIN cache \cup {namespace} |-> IF n = namespace THEN entry ELSE cache[n]]

\* main(), lines 223-314: namespace policy, then the author tier
TrustStep(E) ==
    /\ pc = "loop"
    /\ qi <= Len(queue)
    /\ LET item == queue[qi]
           c0 == FreshCur(item)
           verdict == classify_namespace(c0.uploader)
           c1 == [c0 EXCEPT !.decision = verdict[1],
                            !.is_whitelisted = (verdict[1] = "allow_whitelist"),
                            !.calls = {"classify_namespace"}]
           gate == NamespaceGate(verdict, c1.namespace)
       IN  IF gate # ""
           THEN /\ SkipAndContinue(c1, stats, gate,
                                   IF verdict[1] = "deny_blacklist" THEN c1.uploader
                                   ELSE c1.namespace)
                /\ UNCHANGED <<db_authors, author_run_cache>>
           ELSE IF c1.namespace \in {NoneStr, <<>>}
           THEN /\ cur' = c1
                /\ pc' = "prefetch"
                /\ UNCHANGED <<db_authors, author_run_cache, stats, qi, hist>>
           ELSE IF c1.namespace \in DOMAIN author_run_cache
           THEN /\ cur' = [c1 EXCEPT
                            !.author_kind = author_run_cache[c1.namespace].kind,
                            !.auth_data = author_run_cache[c1.namespace].auth_data,
                            !.trust_tier = author_run_cache[c1.namespace].trust_tier,
                            !.calls = @ \cup {"author_run_cache"}]
                /\ pc' = "prefetch"
                /\ UNCHANGED <<db_authors, author_run_cache, stats, qi, hist>>
           ELSE \E org_data \in E.orgs, user_data \in E.users, raise \in E.raise_trust :
                LET r == ResolveAuthor(get_author(c1.namespace), org_data, user_data)
                    tier == Tier(r.kind, r.has_data, r.auth_data, c1.is_whitelisted)
                    asked_org == "get_org_details" \in r.calls
                    asked_user == "get_user_overview" \in r.calls
                    c2 == [c1 EXCEPT
                            !.author_kind = r.kind, !.auth_data = r.auth_data,
                            !.trust_tier = tier, !.calls = @ \cup r.calls,
                            !.org_data = IF asked_org THEN org_data.state ELSE @,
                            !.user_data = IF asked_user THEN user_data.state ELSE @]
                IN  IF raise = "get_author"
                    THEN /\ HandleException([c1 EXCEPT !.calls = @ \cup {"get_author"}],
                                            stats)
                         /\ UNCHANGED <<db_authors, author_run_cache>>
                    ELSE IF raise = "upsert_author" /\ r.upsert
                    THEN /\ HandleException([c2 EXCEPT !.trust_tier = 1], stats)
                         /\ UNCHANGED <<db_authors, author_run_cache>>
                    ELSE /\ db_authors' = IF r.upsert
                                          THEN [db_authors EXCEPT ![c1.namespace] = r.auth_data]
                                          ELSE db_authors
                         /\ author_run_cache' =
                                CachePut(author_run_cache, c1.namespace,
                                         [kind |-> r.kind, auth_data |-> r.auth_data,
                                          has_data |-> r.has_data, trust_tier |-> tier])
                         /\ cur' = c2
                         /\ pc' = "prefetch"
                         /\ hist' = [hist EXCEPT !.indeterminate =
                                        IF (asked_org /\ org_data.state = "none")
                                           \/ (asked_user /\ user_data.state = "none")
                                        THEN @ \cup {c1.namespace} ELSE @]
                         /\ UNCHANGED <<stats, qi>>
    /\ UNCHANGED <<policyVars, cls, concVars, db_models, db_dynbl, db_last_run, db_dynwl, worldVars,
                   dry_run, candidates, queue, seen_signatures, processed_models>>

\* one entry of a file listing: what the gates read of it
File(kind, status) == [kind |-> kind, status |-> status]
\* what get_model_file_details returns: a list, or None
Listing(files) == [listed |-> TRUE, files |-> files]
NoListing == [listed |-> FALSE, files |-> <<>>]

RECURSIVE WarningsOf(_)
WarningsOf(files) ==
    IF files = <<>> THEN <<>>
    ELSE (IF Head(files).status \in {"unsafe", "malicious", "infected"}
          THEN <<"warn:security_scan_flagged">> ELSE <<>>)
         \o (IF Head(files).kind = "exe" THEN <<"warn:executable_file_present">> ELSE <<>>)
         \o WarningsOf(Tail(files))

\* a scan that reports a flagged file as a denial of the content gate
SecurityDenies(file_details) ==
    IF ~file_details.listed \/ file_details.files = <<>> THEN <<>>
    ELSE IF WarningsOf(file_details.files) # <<>> THEN <<"skip:nsfw_excluded">>
    ELSE <<>>

\* param_estimator.security_warnings; config: scan flags and executables warn, scripts do not
security_warnings(file_details) ==
    IF ~file_details.listed \/ file_details.files = <<>> THEN <<>>
    ELSE WarningsOf(file_details.files)

\* a listing check that never finds a README-like file
TreeNeverHasReadme(file_details) == FALSE

\* main.tree_has_readme
tree_has_readme(file_details) ==
    /\ file_details.listed
    /\ \E i \in 1..Len(file_details.files) : file_details.files[i].kind = "readme"

RECURSIVE RecordWarnings(_, _, _)
\* for w_reason, w_extra in security_warnings(file_details): stats.record_warn(...)
RecordWarnings(st, c, warnings) ==
    IF warnings = <<>> THEN st
    ELSE RecordWarnings(record_warn(st, c.id, Head(warnings), c.uploader), c, Tail(warnings))

\* main(), lines 323-334: the trace after the three pre-fetch gates, denied as a set
FilterTrace(warnings, denied) ==
    warnings
    \o (IF "skip:generative_visual" \in denied THEN <<"skip:generative_visual">> ELSE <<>>)
    \o (IF "skip:nsfw_excluded" \in denied THEN <<"skip:nsfw_excluded">> ELSE <<>>)
    \o (IF "skip:export_conversion" \in denied THEN <<"skip:export_conversion">> ELSE <<>>)

InTrace(trace, reason) == \E i \in 1..Len(trace) : trace[i] = reason

\* the pre-fetch decision without the export/conversion gate
PrefetchSkipReasonNoExport(trace) ==
    IF InTrace(trace, "skip:nsfw_excluded") THEN "skip:nsfw_excluded"
    ELSE IF InTrace(trace, "skip:generative_visual") THEN trace[1]
    ELSE ""

\* main(), lines 336-342: the reason recorded by the pre-fetch cluster, "" to go on
PrefetchSkipReason(trace) ==
    IF InTrace(trace, "skip:nsfw_excluded") THEN "skip:nsfw_excluded"
    ELSE IF InTrace(trace, "skip:generative_visual")
            \/ InTrace(trace, "skip:export_conversion")
    THEN trace[1]
    ELSE ""

\* the pre-fetch gates in the order main() asks them
PreGateOrder ==
    <<"skip:generative_visual", "skip:nsfw_excluded", "skip:export_conversion">>
PreGates == {PreGateOrder[i] : i \in 1..Len(PreGateOrder)}

\* main(), lines 316-342: file listing, security warnings, pre-fetch gates
PrefetchStep(E) ==
    /\ pc = "prefetch"
    /\ \E file_details \in E.files, denied \in E.pregates, raise \in E.raise_prefetch :
        LET warnings == security_warnings(file_details)
            st == RecordWarnings(stats, cur, warnings)
            trace == FilterTrace(warnings, denied)
            c == [cur EXCEPT !.file_details = file_details,
                             !.calls = @ \cup {"get_model_file_details"},
                             !.warns = Len(warnings)]
            reason == PrefetchSkipReason(trace)
        IN  IF raise = "filters"
            THEN HandleException(c, st)
            ELSE IF reason # ""
            THEN SkipAndContinue([c EXCEPT !.filter_trace = trace, !.gates = denied],
                                 st, reason, c.uploader)
            ELSE /\ stats' = st
                 /\ cur' = [c EXCEPT !.filter_trace = trace, !.gates = denied]
                 /\ pc' = "readme"
                 /\ UNCHANGED <<qi, hist>>
    /\ UNCHANGED <<policyVars, cls, concVars, dbVars, worldVars, dry_run, candidates,
                   queue, author_run_cache, seen_signatures, processed_models>>

\* the post-fetch gates in the order main() asks them
PostGates ==
    <<"skip:empty_readme", "skip:merge_model", "skip:robotics_embodied",
      "skip:clone_of_canonical">>

\* main(), lines 356-370: the first post-fetch gate that denies, "" when none does
PostfetchSkipReason(denied) ==
    IF \E i \in 1..Len(PostGates) : PostGates[i] \in denied
    THEN PostGates[CHOOSE i \in 1..Len(PostGates) :
                     /\ PostGates[i] \in denied
                     /\ \A j \in 1..(i - 1) : PostGates[j] \notin denied]
    ELSE ""

\* main(), lines 344-370: the README fetch and the gates that read it
ReadmeStep(E) ==
    /\ pc = "readme"
    /\ \E readme_content \in E.readmes, denied \in E.postgates, raise \in E.raise_readme :
        LET c == [cur EXCEPT !.calls = @ \cup {"get_model_readme"},
                             !.readme = readme_content]
            reason == PostfetchSkipReason(denied)
        IN  IF readme_content = "none"
            THEN IF tree_has_readme(c.file_details) \/ ~c.file_details.listed
                 THEN SkipAndContinue(c, record_warn(stats, c.id, "warn:readme_fetch_failed",
                                                     c.uploader),
                                      "skip:readme_fetch_failed", c.uploader)
                 ELSE SkipAndContinue(c, stats, "skip:no_readme", c.uploader)
            ELSE IF raise = "filters"
            THEN HandleException(c, stats)
            ELSE IF reason # ""
            THEN SkipAndContinue([c EXCEPT !.gates = @ \cup denied], stats, reason,
                                 c.uploader)
            ELSE /\ cur' = [c EXCEPT !.gates = @ \cup denied]
                 /\ pc' = "quality"
                 /\ UNCHANGED <<stats, qi, hist>>
    /\ UNCHANGED <<policyVars, cls, concVars, dbVars, worldVars, dry_run, candidates,
                   queue, author_run_cache, seen_signatures, processed_models>>

\* a quality gate that holds every tier to the tier-1 rules
QualityGateTierBlind(is_whitelisted, trust_tier, flags) ==
    IF is_whitelisted THEN ""
    ELSE IF "unsloth_template" \in flags THEN "skip:template_finetune_unsloth"
    ELSE IF "quant_base" \in flags THEN "skip:finetune_from_quant_base"
    ELSE IF "roleplay" \in flags THEN "skip:roleplay_content"
    ELSE IF "boilerplate" \in flags THEN "skip:boilerplate_readme"
    ELSE IF "low_info" \in flags THEN "skip:low_info_score"
    ELSE ""

\* main(), lines 385-413: the tier-dependent quality gate on the flags the
\* README filters returned, "" to go on
QualitySkipReason(is_whitelisted, trust_tier, flags) ==
    IF is_whitelisted THEN ""
    ELSE IF trust_tier <= 1
    THEN IF "unsloth_template" \in flags THEN "skip:template_finetune_unsloth"
         ELSE IF "quant_base" \in flags THEN "skip:finetune_from_quant_base"
         ELSE IF "roleplay" \in flags THEN "skip:roleplay_content"
         ELSE IF "boilerplate" \in flags THEN "skip:boilerplate_readme"
         ELSE IF "low_info" \in flags THEN "skip:low_info_score"
         ELSE ""
    ELSE IF "boilerplate" \in flags THEN "skip:boilerplate_readme"
    ELSE ""

\* main(), lines 372-419: quality gate, then the near-duplicate signature
\* what compute_repo_signature reads of a repository: the README text and the
\* paths of the file listing in the order listed
Content(readme, paths) == [readme |-> readme, paths |-> paths]

\* WALLET_ADDR_RE.sub("0x<ADDR>", txt) on one token
WalletSub(c) == IF c \in {"0x1", "0x2"} THEN "0x<ADDR>" ELSE c

\* p.strip().lower() of one path
PathLower(p) ==
    CASE p = "X.BIN" -> "x.bin"
      [] p = "Y.BIN" -> "y.bin"
      [] p = "README.md" -> "readme.md"
      [] p = " " -> ""
      [] OTHER -> p

\* p.endswith(("readme.md", "modelcard.md"))
IsReadmePath(p) == p \in {"readme.md", "modelcard.md", "docs/readme.md"}

\* compute_repo_signature: the two parts that are hashed, the paths as the set
\* that sorted(set(paths)) lists
compute_repo_signature(content) ==
    <<LowerStr(JoinSplit([i \in 1..Len(content.readme) |-> WalletSub(content.readme[i])],
                         <<>>)),
      {PathLower(content.paths[i]) : i \in 1..Len(content.paths)}
        \ ({""} \cup {p \in {PathLower(content.paths[i]) : i \in 1..Len(content.paths)} :
                            IsReadmePath(p)})>>

\* a gate that lets every signature through
IsDuplicateNever(seen, sig, model_id) == FALSE

\* sig in seen_signatures and seen_signatures[sig] != model_id
IsDuplicate(seen, sig, model_id) == sig \in DOMAIN seen /\ seen[sig] # model_id

QualityStep(E) ==
    /\ pc = "quality"
    /\ \E flags \in E.quality, content \in E.contents, raise \in E.raise_quality :
        LET reason == QualitySkipReason(cur.is_whitelisted, cur.trust_tier, flags)
            c == [cur EXCEPT !.gates = @ \cup flags]
            sig == compute_repo_signature(content)
            g == [c EXCEPT !.content = content, !.sig = sig]
        IN  IF raise = "filters"
            THEN /\ HandleException(c, stats)
                 /\ UNCHANGED seen_signatures
            ELSE IF reason # ""
            THEN /\ SkipAndContinue(c, stats, reason, c.uploader)
                 /\ UNCHANGED seen_signatures
            ELSE IF IsDuplicate(seen_signatures, sig, c.id)
            THEN /\ SkipAndContinue([g EXCEPT !.canonical = seen_signatures[sig]], stats,
                                    "skip:duplicate_signature", c.uploader)
                 /\ UNCHANGED seen_signatures
            ELSE /\ seen_signatures' =
                        [k \in DOMAIN seen_signatures \cup {sig} |->
                            IF k = sig THEN c.id ELSE seen_signatures[k]]
                 /\ cur' = g
                 /\ pc' = "analysis"
                 /\ hist' = [hist EXCEPT !.first_sig =
                                IF sig \in DOMAIN @ THEN @
                                ELSE [k \in DOMAIN @ \cup {sig} |->
                                        IF k = sig THEN [id |-> c.id, content |-> content]
                                        ELSE @[k]]]
                 /\ UNCHANGED <<stats, qi>>
    /\ UNCHANGED <<policyVars, cls, concVars, dbVars, worldVars, dry_run, candidates,
                   queue, author_run_cache, processed_models>>

\* unicodedata.normalize("NFKC", c): the full-width comma becomes the ASCII one
NFKC(c) == IF c = "fw," THEN "," ELSE c

\* _norm
norm(s) == JoinSplit(LowerStr([i \in 1..Len(s) |-> NFKC(s[i])]), <<>>)

\* string.punctuation and the full-width marks of the translation table
PUNCTUATION == {".", ",", "fw,"}

RECURSIVE Translate(_)
\* s.translate(trans): the punctuation is deleted
Translate(s) ==
    IF s = <<>> THEN <<>>
    ELSE IF Head(s) \in PUNCTUATION THEN Translate(Tail(s))
    ELSE <<Head(s)>> \o Translate(Tail(s))

\* q in r
Contains(r, q) == \E i \in 0..(Len(r) - Len(q)) : SubSeq(r, i + 1, i + Len(q)) = q

\* quote_in_readme
quote_in_readme(quote, readme) ==
    IF quote = <<>> \/ readme = <<>> THEN FALSE
    ELSE IF Contains(readme, quote) THEN TRUE
    ELSE IF Contains(norm(readme), norm(quote)) THEN TRUE
    ELSE Contains(Translate(norm(readme)), Translate(norm(quote)))

\* config.LLM_REQUIRE_EVIDENCE (true unless the environment says otherwise)
LLM_REQUIRE_EVIDENCE == TRUE

\* an evidence check that also takes the score away from a result it downgrades
EvidenceCheckDropsScore(require, llm_result, readme_content) ==
    IF ~require THEN [llm_result |-> llm_result, report_notes |-> <<>>]
    ELSE IF llm_result.evidence = <<>>
    THEN [llm_result |-> [llm_result EXCEPT !.confidence = "low", !.specialist_score = -1],
          report_notes |-> <<"Evidence: Missing">>]
    ELSE IF \E i \in 1..Len(llm_result.evidence) :
                /\ llm_result.evidence[i] # <<>>
                /\ ~quote_in_readme(llm_result.evidence[i], readme_content)
    THEN [llm_result |-> [llm_result EXCEPT !.confidence = "low", !.specialist_score = -1],
          report_notes |-> <<"Evidence: Mismatch">>]
    ELSE [llm_result |-> llm_result, report_notes |-> <<"Evidence: Passed">>]

\* main(), lines 462-480; an evidence item is its quote, <<>> when the item has
\* no quote or an empty one
EvidenceCheck(require, llm_result, readme_content) ==
    IF ~require THEN [llm_result |-> llm_result, report_notes |-> <<>>]
    ELSE IF llm_result.evidence = <<>>
    THEN [llm_result |-> [llm_result EXCEPT !.confidence = "low"],
          report_notes |-> <<"Evidence: Missing">>]
    ELSE IF \E i \in 1..Len(llm_result.evidence) :
                /\ llm_result.evidence[i] # <<>>
                /\ ~quote_in_readme(llm_result.evidence[i], readme_content)
    THEN [llm_result |-> [llm_result EXCEPT !.confidence = "low"],
          report_notes |-> <<"Evidence: Mismatch">>]
    ELSE [llm_result |-> llm_result, report_notes |-> <<"Evidence: Passed">>]

\* config.MIN_SPECIALIST_SCORE
MIN_SPECIALIST_SCORE == 0

\* the row Database.save_model writes (INSERT OR REPLACE)
ModelRow(c, info) ==
    [present |-> TRUE, last_modified |-> StoreTimestamp(info.lastModified),
     trust_tier |-> c.trust_tier, author_kind |-> c.author_kind, status |-> "processed",
     llm_analysis |-> [specialist_score |-> c.llm_result.specialist_score,
                       confidence |-> c.llm_result.confidence],
     report_notes |-> c.report_notes]

\* main(), lines 421-526: parameter gate, analysis call, evidence check, save,
\* report filter
AnalysisStep(E) ==
    /\ pc = "analysis"
    /\ \E pe \in E.params, llm \in E.llm, saved \in E.save :
        LET c1 == [cur EXCEPT !.calls = @ \cup {"estimate_parameters"}]
            c2 == [c1 EXCEPT !.calls = @ \cup {"analyze_model"}, !.llm = llm]
            st1 == [stats EXCEPT !.llm_analyzed = @ + 1]
            st2 == [st1 EXCEPT !.llm_failed = @ + 1]
            st3 == [st1 EXCEPT !.llm_succeeded = @ + 1]
            r == EvidenceCheck(LLM_REQUIRE_EVIDENCE, llm, c2.content.readme)
            c3 == [c2 EXCEPT !.llm_result = r.llm_result, !.report_notes = r.report_notes]
            keep_for_report == r.llm_result.specialist_score >= MIN_SPECIALIST_SCORE
        IN  IF pe = "raise"
            THEN /\ HandleException(c1, stats)
                 /\ UNCHANGED <<db_models, processed_models>>
            ELSE IF pe = "total_too_large"
            THEN /\ SkipAndContinue(c1, stats, "skip:params_total_too_large", c1.uploader)
                 /\ UNCHANGED <<db_models, processed_models>>
            ELSE IF pe = "active_too_large"
            THEN /\ SkipAndContinue(c1, stats, "skip:params_active_too_large", c1.uploader)
                 /\ UNCHANGED <<db_models, processed_models>>
            ELSE IF llm.result = "raise"
            THEN /\ HandleException(c2, st1)
                 /\ UNCHANGED <<db_models, processed_models>>
            ELSE IF llm.result = "none"
            THEN /\ SkipAndContinue(c2, st2, "skip:llm_error", c2.uploader)
                 /\ UNCHANGED <<db_models, processed_models>>
            ELSE IF LLM_REQUIRE_EVIDENCE /\ llm.evidence # <<>> /\ llm.malformed
            THEN /\ HandleException(c2, st3)
                 /\ UNCHANGED <<db_models, processed_models>>
            ELSE /\ db_models' =
                        IF ~dry_run /\ saved
                        THEN [db_models EXCEPT ![c3.id] = ModelRow(c3, queue[qi].info)]
                        ELSE db_models
                 /\ IF keep_for_report
                    THEN /\ processed_models' = Append(processed_models, c3.id)
                         /\ stats' = [st3 EXCEPT !.processed = @ + 1]
                         /\ cur' = [c3 EXCEPT
                                     !.outcome = "processed",
                                     !.calls = @ \cup (IF dry_run THEN {} ELSE {"save_model"})]
                         /\ qi' = qi + 1
                         /\ pc' = "loop"
                         /\ hist' = [hist EXCEPT !.visited = @ + 1]
                    ELSE /\ SkipAndContinue(
                                [c3 EXCEPT !.calls =
                                    @ \cup (IF dry_run THEN {} ELSE {"save_model"})],
                                st3, "skip:report_filtered", c3.uploader)
                         /\ UNCHANGED processed_models
    /\ UNCHANGED <<policyVars, cls, concVars, db_authors, db_dynbl, db_last_run, db_dynwl,
                   worldVars, dry_run, candidates, queue, author_run_cache,
                   seen_signatures>>

\* the for loop is exhausted
LoopEnd ==
    /\ pc = "loop"
    /\ qi > Len(queue)
    /\ pc' = "learn"
    /\ UNCHANGED <<policyVars, cls, concVars, dbVars, worldVars, dry_run, candidates,
                   queue, qi, stats, author_run_cache, seen_signatures,
                   processed_models, cur, hist>>

\* config.DYNAMIC_BLACKLIST_NO_README_MIN, read from the environment (20 when unset)
DYNAMIC_BLACKLIST_NO_README_MIN == 2

\* max(counter.values()) for one uploader's counter
TopCount(st, uploader) ==
    LET keys == {k \in DOMAIN st.skip_reasons_by_uploader : k[1] = uploader}
    IN  CHOOSE n \in {st.skip_reasons_by_uploader[k] : k \in keys} \cup {0} :
            \A k \in keys : st.skip_reasons_by_uploader[k] <= n

\* the promotion test with a threshold that the count has to exceed
PromotedAboveThreshold(st, uploader) ==
    LET count == Get(st.skip_reasons_by_uploader, <<uploader, "skip:no_readme">>)
        normalized == normalize_namespace(uploader)
    IN  /\ count > DYNAMIC_BLACKLIST_NO_README_MIN
        /\ count = TopCount(st, uploader)
        /\ normalized # <<>>
        /\ normalized \notin WHITELIST
        /\ normalized \notin BASE_BLACKLIST

\* apply_dynamic_blacklist, lines 95-108: does this uploader yield an addition
Promoted(st, uploader) ==
    LET count == Get(st.skip_reasons_by_uploader, <<uploader, "skip:no_readme">>)
        normalized == normalize_namespace(uploader)
    IN  /\ count >= DYNAMIC_BLACKLIST_NO_README_MIN
        /\ count = TopCount(st, uploader)
        /\ normalized # <<>>
        /\ normalized \notin WHITELIST
        /\ normalized \notin BASE_BLACKLIST

RECURSIVE Additions(_, _, _)
\* additions[normalized] = count, in the order the uploaders were first skipped
Additions(st, uploaders, acc) ==
    IF uploaders = <<>> THEN acc
    ELSE LET u == Head(uploaders)
             key == normalize_namespace(u)
             count == Get(st.skip_reasons_by_uploader, <<u, "skip:no_readme">>)
         IN  Additions(st, Tail(uploaders),
                       IF Promoted(st, u)
                       THEN [k \in DOMAIN acc \cup {key} |->
                                IF k = key THEN count ELSE acc[k]]
                       ELSE acc)

\* one row of the dynamic_blacklist table
DynRow(added_at, reason, count, last_seen) ==
    [added_at |-> added_at, reason |-> reason, count |-> count, last_seen |-> last_seen]

\* int(count or 0)
IntOr0(count) == IF count = NoCount THEN 0 ELSE count

\* an upsert that stores the count it is given
UpsertTakesNewCount(table, additions, reason) ==
    [ns \in DOMAIN table \cup (DOMAIN additions \ {Null}) |->
        IF ns \notin DOMAIN additions THEN table[ns]
        ELSE IF ns \in DOMAIN table
        THEN DynRow(table[ns].added_at, reason, IntOr0(additions[ns]), now)
        ELSE DynRow(now, reason, IntOr0(additions[ns]), now)]

\* Database.upsert_dynamic_blacklist: insert, or on conflict keep added_at and the
\* larger count and take the new reason and last_seen; an empty namespace is passed over
upsert_dynamic_blacklist(table, additions, reason) ==
    [ns \in DOMAIN table \cup (DOMAIN additions \ {Null}) |->
        IF ns \notin DOMAIN additions THEN table[ns]
        ELSE IF ns \in DOMAIN table
        THEN DynRow(table[ns].added_at, reason,
                    IF table[ns].count > IntOr0(additions[ns])
                    THEN table[ns].count ELSE IntOr0(additions[ns]),
                    now)
        ELSE DynRow(now, reason, IntOr0(additions[ns]), now)]

\* Database.upsert_dynamic_whitelist: the same statement on dynamic_whitelist
upsert_dynamic_whitelist(table, additions, reason) ==
    [ns \in DOMAIN table \cup (DOMAIN additions \ {Null}) |->
        IF ns \notin DOMAIN additions THEN table[ns]
        ELSE IF ns \in DOMAIN table
        THEN DynRow(table[ns].added_at, reason,
                    IF table[ns].count > IntOr0(additions[ns])
                    THEN table[ns].count ELSE IntOr0(additions[ns]),
                    now)
        ELSE DynRow(now, reason, IntOr0(additions[ns]), now)]

\* a learning pass that hands the classifier its additions only
LearnKeepsOnlyNew ==
    /\ pc = "learn"
    /\ LET additions == Additions(stats, stats.uploaders, <<>>)
       IN  IF dry_run \/ DOMAIN additions = {}
           THEN UNCHANGED <<db_dynbl, DYNAMIC_BLACKLIST, BLACKLIST>>
           ELSE /\ db_dynbl' = upsert_dynamic_blacklist(db_dynbl, additions, "skip:no_readme")
                /\ DYNAMIC_BLACKLIST' = NormalizedKeys(DOMAIN additions)
                /\ BLACKLIST' =
                        CombineBlacklist(NormalizedKeys(DOMAIN additions))
    /\ hist' = [hist EXCEPT !.learned = TRUE,
                            !.promoted = IF dry_run
                                         THEN {}
                                         ELSE DOMAIN Additions(stats, stats.uploaders, <<>>)]
    /\ pc' = "report"
    /\ UNCHANGED <<DYNAMIC_WHITELIST, WHITELIST, cls, concVars, db_models, db_authors,
                   db_last_run, db_dynwl, worldVars, dry_run, candidates, queue, qi, stats,
                   author_run_cache, seen_signatures, processed_models, cur>>

\* apply_dynamic_blacklist(db, stats, args.dry_run)
Learn ==
    /\ pc = "learn"
    /\ LET additions == Additions(stats, stats.uploaders, <<>>)
       IN  IF dry_run \/ DOMAIN additions = {}
           THEN UNCHANGED <<db_dynbl, DYNAMIC_BLACKLIST, BLACKLIST>>
           ELSE /\ db_dynbl' = upsert_dynamic_blacklist(db_dynbl, additions, "skip:no_readme")
                /\ DYNAMIC_BLACKLIST' = NormalizedKeys(DOMAIN db_dynbl \cup DOMAIN additions)
                /\ BLACKLIST' =
                        CombineBlacklist(NormalizedKeys(DOMAIN db_dynbl \cup DOMAIN additions))
    /\ hist' = [hist EXCEPT !.learned = TRUE,
                            !.promoted = IF dry_run
                                         THEN {}
                                         ELSE DOMAIN Additions(stats, stats.uploaders, <<>>)]
    /\ pc' = "report"
    /\ UNCHANGED <<DYNAMIC_WHITELIST, WHITELIST, cls, concVars, db_models, db_authors,
                   db_last_run, db_dynwl, worldVars, dry_run, candidates, queue, qi, stats,
                   author_run_cache, seen_signatures, processed_models, cur>>

\* main(), lines 535-549: the report is generated when there is anything to report
Report ==
    /\ pc = "report"
    /\ hist' = [hist EXCEPT !.reported =
                    (processed_models # <<>> \/ stats.skipped > 0 \/ stats.warned > 0)]
    /\ pc' = "watermark"
    /\ UNCHANGED <<policyVars, cls, concVars, dbVars, worldVars, dry_run, candidates,
                   queue, qi, stats, author_run_cache, seen_signatures,
                   processed_models, cur>>

\* main(), lines 551-552: if not args.dry_run: db.set_last_run_timestamp(current_run_time)
Watermark ==
    /\ pc = "watermark"
    /\ db_last_run' = IF dry_run THEN db_last_run ELSE now
    /\ hist' = [hist EXCEPT !.changed = {}, !.prev_ids = Ids(candidates),
                            !.prev_dry = dry_run, !.interrupted = FALSE]
    /\ pc' = "done"
    /\ UNCHANGED <<policyVars, cls, concVars, db_models, db_authors, db_dynbl, db_dynwl,
                   worldVars, dry_run, candidates, queue, qi, stats, author_run_cache,
                   seen_signatures, processed_models, cur>>

\* the process ends before main() returns (killed, or an exception outside the
\* loop body): what was committed stays, line 552 is never reached
Abandon ==
    /\ pc \in {"fetch", "detect", "loop", "prefetch", "readme", "quality", "analysis",
               "learn", "report", "watermark"}
    /\ pc' = "done"
    /\ hist' = [hist EXCEPT !.changed = {}, !.prev_ids = Ids(candidates),
                            !.prev_dry = dry_run, !.interrupted = TRUE]
    /\ UNCHANGED <<policyVars, cls, concVars, dbVars, worldVars, dry_run, candidates,
                   queue, qi, stats, author_run_cache, seen_signatures,
                   processed_models, cur>>

\* the steps of main() in environment E
RunSteps(E) ==
    \/ Start(E)
    \/ Aggregate(E)
    \/ DetectChanges
    \/ TrustStep(E)
    \/ PrefetchStep(E)
    \/ ReadmeStep(E)
    \/ QualityStep(E)
    \/ AnalysisStep(E)
    \/ LoopEnd
    \/ Learn
    \/ Report
    \/ Watermark

\* runs of main(), and the registry moving on between them
RunNext(E) ==
    \/ RegistryUpdate(E)
    \/ RunSteps(E)

InitRun == PolicyInit /\ cls = NoCall /\ ConcIdle /\ MainIdle

\* what the analysis service may answer
Llm(result, score) ==
    [result |-> result, specialist_score |-> score, confidence |-> "high",
     evidence |-> <<>>, malformed |-> FALSE]
\* an answer with its confidence and its evidence list; malformed when an item of
\* the list is not a JSON object
LlmWith(score, confidence, evidence, malformed) ==
    [result |-> "ok", specialist_score |-> score, confidence |-> confidence,
     evidence |-> evidence, malformed |-> malformed]

\* a registry with stamped and unstamped listings, dry and real runs, a failing
\* analysis service and a failing save; authors and gates held quiet
EnvDetect ==
    [runs |-> MaxRuns,
     models |-> {<<"a", "/", "x">>, <<"a", "/", "y">>},
     mutable |-> {<<"a", "/", "x">>, <<"a", "/", "y">>},
     unstamped |-> {<<"a", "/", "y">>},
     days |-> {1},
     dry |-> BOOLEAN,
     orgs |-> {LookupNone},
     users |-> {LookupNone},
     raise_trust |-> {"none"},
     files |-> {Listing(<<File("weights", "None")>>)},
     pregates |-> {{}, {"skip:export_conversion"}},
     raise_prefetch |-> {"none"},
     readmes |-> {"text"},
     postgates |-> {{}},
     raise_readme |-> {"none"},
     quality |-> {{}},
     contents |-> {Content(<<"a">>, <<"x.bin">>), Content(<<"b">>, <<"x.bin">>)},
     raise_quality |-> {"none"},
     params |-> {"ok"},
     llm |-> {Llm("ok", 7), Llm("none", 0)},
     save |-> BOOLEAN]

\* every answer of the two author lookups, fresh and stale cache records,
\* allow-listed, deny-listed and namespace-less identities; gates held quiet
EnvTrust ==
    [runs |-> 1,
     models |-> {<<"a", "/", "x">>, <<"a", "/", "y">>, <<"Q", "/", "x">>,
                 <<"b", "/", "x">>, <<"x">>},
     unstamped |-> {},
     days |-> {1, 14},
     dry |-> {FALSE},
     orgs |-> {LookupRecord(-1, FALSE), LookupEmpty, LookupNone},
     users |-> {LookupRecord(-1, FALSE), LookupRecord(199, FALSE), LookupRecord(200, FALSE),
                LookupRecord(199, TRUE), LookupEmpty, LookupNone},
     raise_trust |-> {"none", "get_author", "upsert_author"},
     files |-> {Listing(<<File("weights", "None")>>)},
     pregates |-> {{}},
     raise_prefetch |-> {"none"},
     readmes |-> {"text"},
     postgates |-> {{}},
     raise_readme |-> {"none"},
     quality |-> {{}, {"boilerplate"}},
     contents |-> {Content(<<"a">>, <<"x.bin">>)},
     raise_quality |-> {"none"},
     params |-> {"ok"},
     llm |-> {Llm("ok", 7)},
     save |-> {TRUE}]

\* every answer of the gates, flagged file listings, exceptions at every step;
\* one author answer
EnvGates ==
    [runs |-> 1,
     models |-> {<<"a", "/", "x">>, <<"a", "/", "y">>},
     unstamped |-> {},
     days |-> {1},
     dry |-> BOOLEAN,
     orgs |-> {LookupEmpty},
     users |-> {LookupRecord(200, FALSE)},
     raise_trust |-> {"none", "get_author"},
     files |-> {NoListing, Listing(<<>>), Listing(<<File("weights", "unsafe")>>),
                Listing(<<File("readme", "None"), File("exe", "None")>>)},
     pregates |-> SUBSET PreGates,
     raise_prefetch |-> {"none", "filters"},
     readmes |-> {"none", "text"},
     postgates |-> {{}, {"skip:merge_model"}, {"skip:empty_readme", "skip:merge_model"},
                    {"skip:robotics_embodied", "skip:clone_of_canonical"}},
     raise_readme |-> {"none", "filters"},
     quality |-> {{}, {"boilerplate"}, {"roleplay", "low_info"}, {"unsloth_template"}},
     contents |-> {Content(<<"a">>, <<"x.bin">>), Content(<<"b">>, <<"x.bin">>)},
     raise_quality |-> {"none", "filters"},
     params |-> {"ok", "total_too_large", "active_too_large", "raise"},
     llm |-> {Llm("ok", 7), Llm("ok", -1), Llm("none", 0), Llm("raise", 0)},
     save |-> BOOLEAN]

NextDetect == RunNext(EnvDetect)
SpecDetect == InitRun /\ [][NextDetect]_vars

\* author rows that earlier runs (dry runs write them too) left at the clock's
\* first instant: a run one day later finds them fresh, fourteen days later stale
PersistedAuthors ==
    {authors \in [Namespaces -> {AbsentAuthor, AuthorRow("org", -1, 0),
                                 AuthorRow("user", 200, 0), AuthorRow("user", -1, 0),
                                 AuthorRow("unknown", -1, 0)}] :
        /\ \A n \in Namespaces \ {<<"a">>, <<"Q">>} : authors[n] = AbsentAuthor
        /\ authors[<<"Q">>] \in {AbsentAuthor, AuthorRow("user", -1, 0)}}

InitTrust ==
    /\ PolicyInit /\ cls = NoCall /\ ConcIdle /\ ProcessIdle
    /\ db_models = [m \in Models |-> AbsentModel]
    /\ db_dynbl = <<>>
    /\ db_last_run = NoStamp
    /\ db_dynwl = <<>>
    /\ db_authors \in PersistedAuthors

NextTrust == RunSteps(EnvTrust)
SpecTrust == InitTrust /\ [][NextTrust]_vars

NextGates == RunSteps(EnvGates)
SpecGates == InitRun /\ [][NextGates]_vars

\* an exception at every place of the loop body that can raise one, after a
\* security warning was recorded; gates held quiet
EnvRaise ==
    [runs |-> 1,
     models |-> {<<"a", "/", "x">>, <<"a", "/", "y">>},
     unstamped |-> {},
     days |-> {1},
     dry |-> BOOLEAN,
     orgs |-> {LookupEmpty},
     users |-> {LookupRecord(200, FALSE)},
     raise_trust |-> {"none", "get_author", "upsert_author"},
     files |-> {Listing(<<File("weights", "unsafe")>>)},
     pregates |-> {{}},
     raise_prefetch |-> {"none", "filters"},
     readmes |-> {"none", "text"},
     postgates |-> {{}},
     raise_readme |-> {"none", "filters"},
     quality |-> {{}},
     contents |-> {Content(<<"a">>, <<"x.bin">>), Content(<<"b">>, <<"x.bin">>)},
     raise_quality |-> {"none", "filters"},
     params |-> {"ok", "raise"},
     llm |-> {Llm("ok", 7), Llm("raise", 0)},
     save |-> {TRUE}]

NextRaise == RunSteps(EnvRaise)
\* main() is one sequential process: a step that can be taken is taken
SpecRaise == InitRun /\ [][NextRaise]_vars /\ WF_vars(NextRaise)

\* two runs over one namespace whose lookups answer determinately: the second
\* run starts one day or a full freshness window after the first
EnvRecheck ==
    [runs |-> MaxRuns,
     models |-> {<<"a", "/", "x">>, <<"a", "/", "y">>},
     mutable |-> {<<"a", "/", "x">>},
     unstamped |-> {},
     days |-> {1, 14},
     dry |-> {FALSE},
     orgs |-> {LookupEmpty, LookupRecord(-1, FALSE)},
     users |-> {LookupEmpty, LookupRecord(200, FALSE)},
     raise_trust |-> {"none"},
     files |-> {Listing(<<File("weights", "None")>>)},
     pregates |-> {{}},
     raise_prefetch |-> {"none"},
     readmes |-> {"text"},
     postgates |-> {{}},
     raise_readme |-> {"none"},
     quality |-> {{}},
     contents |-> {Content(<<"a">>, <<"x.bin">>), Content(<<"b">>, <<"x.bin">>)},
     raise_quality |-> {"none"},
     params |-> {"ok"},
     llm |-> {Llm("ok", 7)},
     save |-> {TRUE}]

NextRecheck == RunNext(EnvRecheck)
SpecRecheck == InitRun /\ [][NextRecheck]_vars

\* apply_dynamic_blacklist on its own: the skips that a loop recorded, one
\* record_skip call each
MaxSkips == 4

LearnUploaders == {<<"a">>, <<"m">>, <<"Q">>, <<"b">>}
LearnReasons == {"skip:no_readme", "skip:readme_fetch_failed"}

RECURSIVE RecordSkips(_, _)
RecordSkips(st, skips) ==
    IF skips = <<>> THEN st
    ELSE RecordSkips(record_skip(st, Head(skips)[1] \o <<"/", "x">>, Head(skips)[2],
                                 Head(skips)[1]),
                     Tail(skips))

\* the process at main() line 533: the loop is over, the lists are the static
\* ones plus what was loaded or learned, the table holds what earlier runs learned
InitLearn ==
    /\ ConcIdle /\ cls = NoCall
    /\ db_models = [m \in Models |-> AbsentModel]
    /\ db_authors = [n \in Namespaces |-> AbsentAuthor]
    /\ db_last_run = NoStamp
    /\ db_dynwl = <<>>
    /\ remote = [m \in Models |-> [created_at |-> 1, lastModified |-> 1]]
    /\ now = 2
    /\ run = 1
    /\ dry_run \in BOOLEAN
    /\ pc = "learn"
    /\ candidates = <<>>
    /\ queue = <<>>
    /\ qi = 1
    /\ author_run_cache = <<>>
    /\ seen_signatures = <<>>
    /\ processed_models = <<>>
    /\ cur = NoCur
    /\ hist = NoHist
    /\ \E learned_deny \in {{}, {<<"y">>}}, learned_allow \in {{}, {<<"m">>}} :
            /\ db_dynbl = [ns \in learned_deny |-> DynRow(1, "skip:no_readme", 3, 1)]
            /\ DYNAMIC_BLACKLIST = learned_deny
            /\ BLACKLIST = CombineBlacklist(learned_deny)
            /\ DYNAMIC_WHITELIST = learned_allow
            /\ WHITELIST = CombineWhitelist(learned_allow)
    /\ \E skips \in UNION {[1..k -> LearnUploaders \X LearnReasons] : k \in 0..MaxSkips} :
            stats = RecordSkips(NewStats, skips)

NextLearn == Learn \/ Report \/ Watermark
SpecLearn == InitLearn /\ [][NextLearn]_vars

\* repositories that repeat one model card: the same README up to blanks, case
\* and wallet address, the same files listed in another order and spelling
EnvDup ==
    [runs |-> 1,
     models |-> {<<"a", "/", "x">>, <<"a", "/", "y">>, <<"Q", "/", "x">>},
     unstamped |-> {},
     days |-> {1},
     dry |-> {FALSE},
     orgs |-> {LookupEmpty},
     users |-> {LookupRecord(200, FALSE)},
     raise_trust |-> {"none"},
     files |-> {Listing(<<File("weights", "None")>>)},
     pregates |-> {{}},
     raise_prefetch |-> {"none"},
     readmes |-> {"text"},
     postgates |-> {{}},
     raise_readme |-> {"none"},
     quality |-> {{}, {"boilerplate"}},
     contents |-> {Content(<<"A", " ", " ", "0x1">>, <<"x.bin", "y.bin">>),
                   Content(<<"a", " ", "0x2", " ">>, <<"Y.BIN", "README.md", "x.bin", " ">>),
                   Content(<<"a", " ", "0x1">>, <<"x.bin">>),
                   Content(<<"a", "0x1">>, <<"x.bin", "y.bin">>)},
     raise_quality |-> {"none", "filters"},
     params |-> {"ok", "total_too_large"},
     llm |-> {Llm("ok", 7), Llm("none", 0)},
     save |-> {TRUE}]

NextDup == RunSteps(EnvDup)
SpecDup == InitRun /\ [][NextDup]_vars

\* runs that may end early, each followed by another run over the same registry
EnvAbandon ==
    [runs |-> MaxRuns,
     models |-> {<<"a", "/", "x">>, <<"a", "/", "y">>},
     mutable |-> {<<"a", "/", "x">>},
     unstamped |-> {},
     days |-> {1},
     dry |-> BOOLEAN,
     orgs |-> {LookupNone},
     users |-> {LookupNone},
     raise_trust |-> {"none"},
     files |-> {Listing(<<File("weights", "None")>>)},
     pregates |-> {{}, {"skip:export_conversion"}},
     raise_prefetch |-> {"none"},
     readmes |-> {"text"},
     postgates |-> {{}},
     raise_readme |-> {"none"},
     quality |-> {{}},
     contents |-> {Content(<<"a">>, <<"x.bin">>), Content(<<"b">>, <<"x.bin">>)},
     raise_quality |-> {"none"},
     params |-> {"ok"},
     llm |-> {Llm("ok", 7)},
     save |-> {TRUE}]

NextAbandon == RunNext(EnvAbandon) \/ Abandon
SpecAbandon == InitRun /\ [][NextAbandon]_vars

\* what the README filters of the quality gate may report
QualityFlags == {"unsloth_template", "quant_base", "roleplay", "boilerplate", "low_info"}

\* every answer of the README quality filters for an unlisted namespace of every
\* tier, an allow-listed namespace and an identity without namespace
EnvQuality ==
    [runs |-> 1,
     models |-> {<<"a", "/", "x">>, <<"Q", "/", "x">>, <<"x">>},
     unstamped |-> {},
     days |-> {1},
     dry |-> {FALSE},
     orgs |-> {LookupRecord(-1, FALSE), LookupEmpty},
     users |-> {LookupRecord(199, FALSE), LookupRecord(200, FALSE), LookupRecord(199, TRUE)},
     raise_trust |-> {"none"},
     files |-> {Listing(<<File("weights", "None")>>)},
     pregates |-> {{}},
     raise_prefetch |-> {"none"},
     readmes |-> {"text"},
     postgates |-> {{}},
     raise_readme |-> {"none"},
     quality |-> SUBSET QualityFlags,
     contents |-> {Content(<<"a">>, <<"x.bin">>)},
     raise_quality |-> {"none"},
     params |-> {"ok"},
     llm |-> {Llm("ok", 7)},
     save |-> {TRUE}]

NextQuality == RunSteps(EnvQuality)
SpecQuality == InitRun /\ [][NextQuality]_vars

\* one unlisted namespace that the lookups make an organization or an
\* individual of tier 1 or 2; gates held quiet
EnvAllow ==
    [runs |-> 1,
     models |-> {<<"a", "/", "x">>, <<"a", "/", "y">>},
     unstamped |-> {},
     days |-> {1},
     dry |-> BOOLEAN,
     orgs |-> {LookupRecord(-1, FALSE), LookupEmpty},
     users |-> {LookupRecord(199, FALSE), LookupRecord(200, FALSE)},
     raise_trust |-> {"none"},
     files |-> {Listing(<<File("weights", "None")>>)},
     pregates |-> {{}},
     raise_prefetch |-> {"none"},
     readmes |-> {"text"},
     postgates |-> {{}},
     raise_readme |-> {"none"},
     quality |-> {{}, {"roleplay"}},
     contents |-> {Content(<<"a">>, <<"x.bin">>)},
     raise_quality |-> {"none"},
     params |-> {"ok"},
     llm |-> {Llm("ok", 7)},
     save |-> {TRUE}]

\* the dynamic_whitelist table as Database.upsert_dynamic_whitelist left it
\* before the process starts: empty, or with a row for the namespace
PersistedAllow == {<<>>, [ns \in {<<"a">>} |-> DynRow(0, "tier3_org", 1, 0)]}

InitAllow ==
    /\ PolicyInit /\ cls = NoCall /\ ConcIdle /\ ProcessIdle
    /\ db_models = [m \in Models |-> AbsentModel]
    /\ db_authors = [n \in Namespaces |-> AbsentAuthor]
    /\ db_dynbl = <<>>
    /\ db_last_run = NoStamp
    /\ db_dynwl \in PersistedAllow

NextAllow == RunSteps(EnvAllow)
SpecAllow == InitAllow /\ [][NextAllow]_vars

\* the retention window handed to prune_dynamic_blacklist: now - timedelta(days=7)
RETENTION_DAYS == 7

\* two real runs over one namespace whose repositories may lack a README; the
\* second run starts one day or fourteen days after the first
EnvAge ==
    [runs |-> MaxRuns,
     models |-> {<<"a", "/", "x">>, <<"a", "/", "y">>},
     mutable |-> {<<"a", "/", "x">>},
     unstamped |-> {},
     days |-> {1, 14},
     dry |-> {FALSE},
     orgs |-> {LookupEmpty},
     users |-> {LookupRecord(200, FALSE)},
     raise_trust |-> {"none"},
     files |-> {Listing(<<File("weights", "None")>>)},
     pregates |-> {{}},
     raise_prefetch |-> {"none"},
     readmes |-> {"none", "text"},
     postgates |-> {{}},
     raise_readme |-> {"none"},
     quality |-> {{}},
     contents |-> {Content(<<"a">>, <<"x.bin">>)},
     raise_quality |-> {"none"},
     params |-> {"ok"},
     llm |-> {Llm("ok", 7)},
     save |-> {TRUE}]

NextAge == RunNext(EnvAge)
SpecAge == InitRun /\ [][NextAge]_vars

\* the dynamic_blacklist table as an earlier run left it: empty, or with a row
PersistedDeny == {<<>>, [ns \in {<<"y">>} |-> DynRow(0, "skip:no_readme", 3, 0)]}

InitPromote ==
    /\ PolicyInit /\ cls = NoCall /\ ConcIdle /\ ProcessIdle
    /\ db_models = [m \in Models |-> AbsentModel]
    /\ db_authors = [n \in Namespaces |-> AbsentAuthor]
    /\ db_dynbl \in PersistedDeny
    /\ db_last_run = NoStamp
    /\ db_dynwl = <<>>

NextPromote == RunNext(EnvAge)
SpecPromote == InitPromote /\ [][NextPromote]_vars

\* analysis results above and below the minimum score whose evidence is absent,
\* quoted from the README, not found in it, without quote text, or malformed;
\* dry and real runs, gates held quiet
EnvNotes ==
    [runs |-> 1,
     models |-> {<<"a", "/", "x">>, <<"a", "/", "y">>},
     unstamped |-> {},
     days |-> {1},
     dry |-> BOOLEAN,
     orgs |-> {LookupEmpty},
     users |-> {LookupRecord(200, FALSE)},
     raise_trust |-> {"none"},
     files |-> {Listing(<<File("weights", "None")>>)},
     pregates |-> {{}},
     raise_prefetch |-> {"none"},
     readmes |-> {"text"},
     postgates |-> {{}},
     raise_readme |-> {"none"},
     quality |-> {{}},
     contents |-> {Content(<<"a", " ", "b">>, <<"x.bin">>)},
     raise_quality |-> {"none"},
     params |-> {"ok"},
     llm |-> {LlmWith(score, confidence, evidence, FALSE) :
                score \in {-1, 0, 7}, confidence \in {"high", "low"},
                evidence \in {<<>>, <<<<"a">>>>, <<<<"c">>>>, <<<<"a">>, <<"c">>>>,
                              <<<<>>>>}}
             \cup {LlmWith(7, "high", <<<<"a">>>>, TRUE)},
     save |-> {TRUE}]

NextNotes == RunSteps(EnvNotes)
SpecNotes == InitRun /\ [][NextNotes]_vars

(***************************************************************************)
(* main.py: candidate aggregation, source by source.  Here the objects the  *)
(* sources yield carry their origin, so that two objects of one identity    *)
(* differ; the run above keeps of an object only what the later steps read. *)
(***************************************************************************)

\* the longest feed and the longest list of trending/paper identities
MaxFeed == 2

AggIds == {<<"a", "/", "x">>, <<"a", "/", "y">>, <<"Q", "/", "x">>}

\* get_model_info returns None
AbsentInfo == <<>>

\* a model object: its id, the source that yielded it and, for the resolver,
\* the identity that was asked for
SourceInfo(id, src, asked) == [id |-> id, src |-> src, asked |-> asked]

\* what a feed returns: one object per identity listed
FeedOf(ids, src) == [i \in 1..Len(ids) |-> SourceInfo(ids[i], src, <<>>)]

\* what the resolver may answer for an identity: its object, nothing, or for a
\* renamed repository the object under the new name
InfoAnswers ==
    {f \in [AggIds -> AggIds \cup {AbsentInfo}] :
        \A m \in AggIds :
            f[m] \in {m, AbsentInfo}
                        \cup (IF m = <<"a", "/", "y">> THEN {<<"a", "/", "x">>} ELSE {})}

\* an add_candidate in which the last writer wins
AddCandidateLastWins(cands, info) ==
    IF info = AbsentInfo THEN cands
    ELSE IF info.id \in Ids(cands)
    THEN [i \in 1..Len(cands) |-> IF cands[i].id = info.id THEN info ELSE cands[i]]
    ELSE Append(cands, info)

\* add_candidate: if info and getattr(info, "id", None) and info.id not in candidates
add_candidate(cands, info) ==
    IF info = AbsentInfo THEN cands
    ELSE IF info.id \notin Ids(cands) THEN Append(cands, info)
    ELSE cands

RECURSIVE AddAll(_, _)
\* for m in recent_models: add_candidate(m)
AddAll(cands, infos) ==
    IF infos = <<>> THEN cands
    ELSE AddAll(add_candidate(cands, Head(infos)), Tail(infos))

InitAggregate ==
    /\ PolicyInit /\ cls = NoCall /\ ConcIdle /\ DbEmpty
    /\ remote = [m \in Models |-> [created_at |-> 1, lastModified |-> 1]]
    /\ now = 1
    /\ run = 0
    /\ dry_run = FALSE
    /\ pc = "aggregate"
    /\ candidates = <<>>
    /\ queue = <<>>
    /\ qi = 0
    /\ stats = NewStats
    /\ author_run_cache = <<>>
    /\ seen_signatures = <<>>
    /\ processed_models = <<>>
    /\ hist = NoHist
    /\ \E recent \in SeqsUpTo(AggIds, MaxFeed), updated \in SeqsUpTo(AggIds, MaxFeed),
          extra_ids \in SeqsUpTo(AggIds, MaxFeed), answers \in InfoAnswers :
            cur = [recent_models |-> FeedOf(recent, "recent"),
                   updated_models |-> FeedOf(updated, "updated"),
                   extra_ids |-> extra_ids, get_model_info |-> answers,
                   xi |-> 0, calls |-> <<>>]

\* main(), lines 163-172: the two feeds are merged into the empty dict
MergeFeeds ==
    /\ pc = "aggregate"
    /\ candidates' = AddAll(AddAll(<<>>, cur.recent_models), cur.updated_models)
    /\ cur' = [cur EXCEPT !.xi = 1]
    /\ pc' = "extras"
    /\ UNCHANGED <<policyVars, cls, concVars, dbVars, worldVars, dry_run, queue, qi, stats,
                   author_run_cache, seen_signatures, processed_models, hist>>

\* main(), lines 175-178: one turn of the loop over extra_ids
ResolveExtra ==
    /\ pc = "extras"
    /\ cur.xi <= Len(cur.extra_ids)
    /\ LET mid == cur.extra_ids[cur.xi]
           answer == cur.get_model_info[mid]
           info == IF answer = AbsentInfo THEN AbsentInfo
                   ELSE SourceInfo(answer, "get_model_info", mid)
       IN  IF mid \notin Ids(candidates)
           THEN /\ candidates' = add_candidate(candidates, info)
                /\ cur' = [cur EXCEPT !.xi = @ + 1,
                                      !.calls = Append(@, [mid |-> mid,
                                                           present |-> Ids(candidates)])]
           ELSE /\ cur' = [cur EXCEPT !.xi = @ + 1]
                /\ UNCHANGED candidates
    /\ UNCHANGED <<policyVars, cls, concVars, dbVars, worldVars, dry_run, pc, queue, qi,
                   stats, author_run_cache, seen_signatures, processed_models, hist>>

\* main(), line 180: stats.record_candidate_batch(len(candidates))
RecordBatch ==
    /\ pc = "extras"
    /\ cur.xi > Len(cur.extra_ids)
    /\ stats' = [stats EXCEPT !.candidates_total = @ + Len(candidates)]
    /\ pc' = "aggregated"
    /\ UNCHANGED <<policyVars, cls, concVars, dbVars, worldVars, dry_run, candidates, queue,
                   qi, author_run_cache, seen_signatures, processed_models, cur, hist>>

NextAggregate == MergeFeeds \/ ResolveExtra \/ RecordBatch
SpecAggregate == InitAggregate /\ [][NextAggregate]_vars

(***************************************************************************)
(* param_estimator.estimate_parameters                                     *)
(***************************************************************************)

\* Python truth of an Optional[int]
Truthy(x) == x # NoCount /\ x # 0

\* cfg.get("vocab_size") or 32000
DEFAULT_VOCAB == 32000
\* config.BYTES_PER_PARAM_FALLBACK
BYTES_PER_PARAM_FALLBACK == 2

RECURSIVE SumSeq(_)
SumSeq(q) == IF q = <<>> THEN 0 ELSE Head(q) + SumSeq(Tail(q))

\* what get_safetensors_metadata answers: an exception, or the counts per dtype
MetaError == [state |-> "error", parameter_count |-> <<>>]
Meta(counts) == [state |-> "ok", parameter_count |-> counts]

\* config.json or params.json was not loaded
NoCfg == [present |-> FALSE]

\* the keys of the loaded config that the heuristic reads, after its "or" chains;
\* 0 is an absent key, moe_layers is the is_moe_layer list, moe_text says that
\* the dumped text contains "moe" or "mixture-of-experts"
Cfg(h, layers, vocab, inter, num_experts, experts_per_tok, shared_experts, dense, moe_layers, moe_text) ==
    [present |-> TRUE, h |-> h, layers |-> layers, vocab |-> vocab, inter |-> inter,
     num_experts |-> num_experts, experts_per_tok |-> experts_per_tok,
     shared_experts |-> shared_experts, dense |-> dense, moe_layers |-> moe_layers,
     moe_text |-> moe_text]

\* _detect_moe
detect_moe(cfg) ==
    LET num_experts == IF cfg.num_experts # 0 THEN cfg.num_experts ELSE 1
        experts_per_tok == IF cfg.experts_per_tok # 0 THEN cfg.experts_per_tok ELSE 1
    IN  [is_moe |-> (num_experts > 1 \/ cfg.moe_text),
         num_experts |-> num_experts,
         experts_per_tok |-> experts_per_tok,
         shared_experts |-> cfg.shared_experts]

HeuristicNone == [total_params |-> NoCount, active_params |-> NoCount, is_moe |-> FALSE]

\* _heuristic_params_from_config
heuristic_params_from_config(cfg) ==
    IF cfg.h = 0 \/ cfg.layers = 0 \/ cfg.inter = 0 THEN HeuristicNone
    ELSE LET vocab == IF cfg.vocab # 0 THEN cfg.vocab ELSE DEFAULT_VOCAB
             moe == detect_moe(cfg)
             listed == Len(cfg.moe_layers) > 0
             moe_in_list == Cardinality({i \in 1..Len(cfg.moe_layers) : cfg.moe_layers[i]})
             dense_count == IF listed THEN Len(cfg.moe_layers) - moe_in_list ELSE cfg.dense
             moe_count == IF listed THEN moe_in_list ELSE cfg.layers - cfg.dense
             embedding_p == vocab * cfg.h
             base_layer_p == 4 * cfg.h * cfg.h
             dense_mlp == 3 * cfg.h * cfg.inter
             active_mlp == (moe.experts_per_tok + moe.shared_experts) * dense_mlp
             total_mlp == (moe.num_experts + moe.shared_experts) * dense_mlp
         IN  [total_params |-> embedding_p + cfg.layers * base_layer_p
                               + dense_count * dense_mlp + moe_count * total_mlp,
              active_params |-> embedding_p + cfg.layers * base_layer_p
                                + dense_count * dense_mlp + moe_count * active_mlp,
              is_moe |-> moe.is_moe]

\* one entry of a file listing with its size
SizedFile(kind, size) == [kind |-> kind, status |-> "None", size |-> size]

RECURSIVE WeightBytes(_)
WeightBytes(files) ==
    IF files = <<>> THEN 0
    ELSE (IF Head(files).kind = "weights" THEN Head(files).size ELSE 0)
         + WeightBytes(Tail(files))

\* _estimate_from_filesize
estimate_from_filesize(file_details) ==
    IF ~file_details.listed \/ file_details.files = <<>> THEN NoCount
    ELSE IF WeightBytes(file_details.files) <= 0 THEN NoCount
    ELSE WeightBytes(file_details.files) \div BYTES_PER_PARAM_FALLBACK

\* the cascade with the file sizes asked before the config
EstimateFilesizeFirst(prefer, meta, cfg, file_details) ==
    LET fs == estimate_from_filesize(file_details)
        h == IF cfg.present THEN heuristic_params_from_config(cfg) ELSE HeuristicNone
        total == IF Truthy(fs) THEN fs ELSE h.total_params
    IN  [total_params |-> total,
         active_params |-> IF Truthy(h.active_params) THEN h.active_params ELSE total,
         source |-> IF Truthy(fs) THEN "filesize_fallback"
                    ELSE IF Truthy(total) THEN "config_heuristic" ELSE "unknown",
         is_moe |-> h.is_moe]

\* estimate_parameters; prefer is config.PARAMS_PREFER_SAFETENSORS_META
estimate_parameters(prefer, meta, cfg, file_details) ==
    LET total1 == IF prefer /\ meta.state = "ok" /\ meta.parameter_count # <<>>
                  THEN SumSeq(meta.parameter_count) ELSE NoCount
        source1 == IF Truthy(total1) THEN "safetensors_metadata" ELSE "unknown"
        h == IF cfg.present THEN heuristic_params_from_config(cfg) ELSE HeuristicNone
        active2 == IF Truthy(h.active_params) THEN h.active_params ELSE NoCount
        from_cfg == ~Truthy(total1) /\ Truthy(h.total_params)
        total2 == IF from_cfg THEN h.total_params ELSE total1
        source2 == IF from_cfg THEN "config_heuristic" ELSE source1
        fs_est == IF ~Truthy(total2) THEN estimate_from_filesize(file_details) ELSE NoCount
        from_fs == ~Truthy(total2) /\ Truthy(fs_est)
        total3 == IF from_fs THEN fs_est ELSE total2
        source3 == IF from_fs THEN "filesize_fallback" ELSE source2
        active4 == IF ~Truthy(active2) /\ Truthy(total3) THEN total3 ELSE active2
    IN  [total_params |-> total3, active_params |-> active4, source |-> source3,
         is_moe |-> h.is_moe]

\* the repositories the estimator is asked about
ParamCfgs ==
    {NoCfg} \cup
    {Cfg(h, layers, vocab, inter, num_experts, experts_per_tok, shared_experts, dense,
         moe_layers, moe_text) :
        h \in {0, 2}, layers \in {0, 2}, vocab \in {0, 1}, inter \in {0, 1},
        num_experts \in {0, 4}, experts_per_tok \in {0, 2}, shared_experts \in {0, 1},
        dense \in {0, 1}, moe_layers \in {<<>>, <<TRUE, FALSE>>},
        moe_text \in BOOLEAN}
ParamMetas == {MetaError, Meta(<<>>), Meta(<<0>>), Meta(<<3, 2>>), Meta(<<100000>>)}
ParamListings ==
    {NoListing, Listing(<<>>), Listing(<<SizedFile("weights", 1)>>),
     Listing(<<SizedFile("weights", 14), SizedFile("readme", 9)>>),
     Listing(<<SizedFile("weights", 200000), SizedFile("weights", 1)>>)}

\* a caller about to call estimate_parameters: cur holds the call's arguments
InitParams ==
    /\ PolicyInit /\ cls = NoCall /\ ConcIdle /\ DbEmpty
    /\ remote = [m \in Models |-> [created_at |-> 1, lastModified |-> 1]]
    /\ now = 1
    /\ run = 0
    /\ dry_run = FALSE
    /\ pc = "estimate"
    /\ candidates = <<>>
    /\ queue = <<>>
    /\ qi = 0
    /\ stats = NewStats
    /\ author_run_cache = <<>>
    /\ seen_signatures = <<>>
    /\ processed_models = <<>>
    /\ hist = NoHist
    /\ \E prefer \in BOOLEAN, meta \in ParamMetas, cfg \in ParamCfgs,
          file_details \in ParamListings :
            /\ cfg.present /\ cfg.moe_layers # <<>> => cfg.moe_text
            /\ cur = [prefer |-> prefer, meta |-> meta, cfg |-> cfg,
                      file_details |-> file_details,
                      pe |-> [total_params |-> NoCount, active_params |-> NoCount,
                              source |-> "unknown", is_moe |-> FALSE]]

\* pe = estimate_parameters(api, repo_id, file_details)
EstimateParameters ==
    /\ pc = "estimate"
    /\ cur' = [cur EXCEPT !.pe = estimate_parameters(cur.prefer, cur.meta, cur.cfg,
                                                     cur.file_details)]
    /\ pc' = "estimated"
    /\ UNCHANGED <<policyVars, cls, concVars, dbVars, worldVars, dry_run, candidates,
                   queue, qi, stats, author_run_cache, seen_signatures,
                   processed_models, hist>>

NextParams == EstimateParameters
SpecParams == InitParams /\ [][NextParams]_vars

(***************************************************************************)
(* main.py: the evidence check of an analysis result                       *)
(***************************************************************************)

MaxQuoteLen == 3
MaxEvidence == 2

QuoteChars == {"a", "A", " ", ".", "fw,"}
Quotes == UNION {[1..k -> QuoteChars] : k \in 0..MaxQuoteLen}
Readmes == {<<"A", " ", " ", "a", ",", "a">>}

\* main() at line 462: an analysis result came back for a fetched README
InitEvidence ==
    /\ PolicyInit /\ cls = NoCall /\ ConcIdle /\ DbEmpty
    /\ remote = [m \in Models |-> [created_at |-> 1, lastModified |-> 1]]
    /\ now = 1
    /\ run = 0
    /\ dry_run = FALSE
    /\ pc = "evidence"
    /\ candidates = <<>>
    /\ queue = <<>>
    /\ qi = 0
    /\ stats = NewStats
    /\ author_run_cache = <<>>
    /\ seen_signatures = <<>>
    /\ processed_models = <<>>
    /\ hist = NoHist
    /\ \E require \in BOOLEAN, readme \in Readmes, confidence \in {"high", "low"},
          evidence \in UNION {[1..k -> Quotes] : k \in 0..MaxEvidence} :
            cur = [require |-> require, readme_content |-> readme,
                   given |-> [evidence |-> evidence, confidence |-> confidence],
                   llm_result |-> [evidence |-> evidence, confidence |-> confidence],
                   report_notes |-> <<>>, added |-> <<>>, confidence_before |-> "None"]

\* the evidence check of one analysis result
CheckEvidence ==
    /\ pc = "evidence"
    /\ LET r == EvidenceCheck(cur.require, cur.llm_result, cur.readme_content)
       IN  cur' = [cur EXCEPT !.llm_result = r.llm_result, !.report_notes = r.report_notes]
    /\ pc' = "evidence_checked"
    /\ UNCHANGED <<policyVars, cls, concVars, dbVars, worldVars, dry_run, candidates,
                   queue, qi, stats, author_run_cache, seen_signatures,
                   processed_models, hist>>

\* the model appends one more quote to the evidence of a checked result and
\* the result is checked again
AddQuote ==
    /\ pc = "evidence_checked"
    /\ Len(cur.given.evidence) < MaxEvidence
    /\ \E quote \in Quotes :
            LET given == [cur.given EXCEPT !.evidence = Append(@, quote)]
                r == EvidenceCheck(cur.require, given, cur.readme_content)
            IN  cur' = [cur EXCEPT !.given = given, !.llm_result = r.llm_result,
                                   !.report_notes = r.report_notes,
                                   !.added = Append(@, quote),
                                   !.confidence_before = cur.llm_result.confidence]
    /\ UNCHANGED <<policyVars, cls, concVars, dbVars, worldVars, dry_run, pc, candidates,
                   queue, qi, stats, author_run_cache, seen_signatures,
                   processed_models, hist>>

NextEvidence == CheckEvidence \/ AddQuote
SpecEvidence == InitEvidence /\ [][NextEvidence]_vars

(***************************************************************************)
(* model_filters.is_export_or_conversion                                   *)
(***************************************************************************)

\* the longest model id, in tokens
MaxIdLen == 3

\* the tokens of a model id: words, and the separators "-", "_" and "/"
IdTokens == {"user", "model", "onnx", "GGUF", "myonnx", "-", "_", "/"}
ExportIds == UNION {[1..k -> IdTokens] : k \in 1..MaxIdLen}

\* str.lower() of one tag or word
TagLower(t) ==
    CASE t = "GGUF" -> "gguf"
      [] t = "ONNX" -> "onnx"
      [] OTHER -> t

\* the words QUANT_NAME_PATTERNS look for (re.IGNORECASE), first pattern
QuantWords == {"gguf", "ggml", "awq", "gptq", "exl2", "onnx"}

\* has_quant_in_name: (^|[-_])WORD($|[-_]) somewhere in the id
has_quant_in_name(model_id) ==
    \E i \in 1..Len(model_id) :
        /\ TagLower(model_id[i]) \in QuantWords
        /\ i = 1 \/ model_id[i - 1] \in {"-", "_"}
        /\ i = Len(model_id) \/ model_id[i + 1] \in {"-", "_"}

\* is_export_or_conversion(model_id, tags, file_details)
is_export_or_conversion(model_id, tags, file_details) ==
    IF {TagLower(t) : t \in tags} \cap {"gguf", "onnx", "gptq", "awq"} # {} THEN TRUE
    ELSE IF has_quant_in_name(model_id) THEN TRUE
    ELSE FALSE

\* main() at line 333: the gate is asked about a candidate
InitExport ==
    /\ PolicyInit /\ cls = NoCall /\ ConcIdle /\ DbEmpty
    /\ remote = [m \in Models |-> [created_at |-> 1, lastModified |-> 1]]
    /\ now = 1
    /\ run = 0
    /\ dry_run = FALSE
    /\ pc = "export"
    /\ candidates = <<>>
    /\ queue = <<>>
    /\ qi = 0
    /\ stats = NewStats
    /\ author_run_cache = <<>>
    /\ seen_signatures = <<>>
    /\ processed_models = <<>>
    /\ hist = NoHist
    /\ \E model_id \in ExportIds, tags \in SUBSET {"gguf", "ONNX", "text-generation"},
          file_details \in {NoListing, Listing(<<File("weights", "None")>>),
                            Listing(<<File("onnx", "None")>>)} :
            cur = [model_id |-> model_id, tags |-> tags, file_details |-> file_details,
                   filter_trace |-> <<>>]

\* if filters.is_export_or_conversion(...): filter_trace.append("skip:export_conversion")
CheckExport ==
    /\ pc = "export"
    /\ cur' = [cur EXCEPT !.filter_trace =
                    IF is_export_or_conversion(cur.model_id, cur.tags, cur.file_details)
                    THEN Append(@, "skip:export_conversion") ELSE @]
    /\ pc' = "export_checked"
    /\ UNCHANGED <<policyVars, cls, concVars, dbVars, worldVars, dry_run, candidates,
                   queue, qi, stats, author_run_cache, seen_signatures,
                   processed_models, hist>>

NextExport == CheckExport
SpecExport == InitExport /\ [][NextExport]_vars

(***************************************************************************)
(* model_filters.is_robotics_but_keep_vqa                                  *)
(***************************************************************************)

\* the longest README of the robotics gate, in words
MaxReadmeWords == 2

\* words of a README or a tag (lower case): "robots" and "robotics" hold the
\* keyword "robot", "world" holds the letters rl inside a word, "rl" is the
\* standalone short token, "gripper" is no keyword
RoboticsWords == {"robot", "robots", "world", "rl", "gripper"}
RoboticsReadmes == UNION {[1..k -> RoboticsWords] : k \in 0..MaxReadmeWords}
RoboticsPipelines == {"", "visual-question-answering", "image-text-to-text",
                      "reinforcement-learning", "object-detection"}
RoboticsTags == {"robot", "robots", "rl", "visual-question-answering", "object-detection"}

ROBOTICS_PIPELINES == {"reinforcement-learning"}

\* the words of the vocabulary that contain a ROBOTICS_KEYWORDS_SUBSTRING term
ROBOTICS_KEYWORDS_SUBSTRING == {"robot", "robots"}
\* the words of the vocabulary that a ROBOTICS_KEYWORDS_REGEX pattern matches
ROBOTICS_KEYWORDS_REGEX == {"rl"}

\* _check_robotics_keywords(text): a keyword inside the text
check_robotics_keywords(text) ==
    \E i \in 1..Len(text) : text[i] \in ROBOTICS_KEYWORDS_SUBSTRING \cup ROBOTICS_KEYWORDS_REGEX

\* _check_robotics_tag(tag): the tag is exactly a long keyword, or holds a short one
check_robotics_tag(tag) ==
    \/ tag = "robot"
    \/ tag \in ROBOTICS_KEYWORDS_REGEX

\* is_robotics_but_keep_vqa(model_info, tags, readme_text)
is_robotics_but_keep_vqa(pipeline, tags, readme_text) ==
    IF pipeline \in {"visual-question-answering", "image-text-to-text"} THEN FALSE
    ELSE IF pipeline \in ROBOTICS_PIPELINES THEN TRUE
    ELSE IF \E tag \in tags : check_robotics_tag(tag) THEN TRUE
    ELSE IF readme_text # <<>> /\ check_robotics_keywords(readme_text) THEN TRUE
    ELSE FALSE

\* main() at line 364: the gate is asked about a candidate whose README was read
InitRobotics ==
    /\ PolicyInit /\ cls = NoCall /\ ConcIdle /\ DbEmpty
    /\ remote = [m \in Models |-> [created_at |-> 1, lastModified |-> 1]]
    /\ now = 1
    /\ run = 0
    /\ dry_run = FALSE
    /\ pc = "robotics"
    /\ candidates = <<>>
    /\ queue = <<>>
    /\ qi = 0
    /\ stats = NewStats
    /\ author_run_cache = <<>>
    /\ seen_signatures = <<>>
    /\ processed_models = <<>>
    /\ hist = NoHist
    /\ \E pipeline \in RoboticsPipelines, tags \in SUBSET RoboticsTags,
          readme_content \in RoboticsReadmes :
            cur = [pipeline |-> pipeline, tags |-> tags, readme_content |-> readme_content,
                   filter_trace |-> <<>>]

\* if filters.is_robotics_but_keep_vqa(...): skip(..., "skip:robotics_embodied")
CheckRobotics ==
    /\ pc = "robotics"
    /\ cur' = [cur EXCEPT !.filter_trace =
                    IF is_robotics_but_keep_vqa(cur.pipeline, cur.tags, cur.readme_content)
                    THEN Append(@, "skip:robotics_embodied") ELSE @]
    /\ pc' = "robotics_checked"
    /\ UNCHANGED <<policyVars, cls, concVars, dbVars, worldVars, dry_run, candidates,
                   queue, qi, stats, author_run_cache, seen_signatures,
                   processed_models, hist>>

NextRobotics == CheckRobotics
SpecRobotics == InitRobotics /\ [][NextRobotics]_vars

(***************************************************************************)
(* llm_client.LLMClient._request_with_backoff                              *)
(***************************************************************************)

\* the most requests one call is followed for
MaxRequests == 12

base_wait_time == 10
max_wait_time == 3600
max_5xx_retries == 10

\* what requests.post() does: a response with a status code, or an exception
BackoffResponses == {"200", "201", "401", "429", "500", "Timeout", "ConnectionError"}
\* the Retry-After header of a 429 response: absent, seconds, or an HTTP date
RetryAfters == {"", "30", "Wed, 21 Oct 2015 07:28:00 GMT"}

\* min(base_wait_time * (2 ** n), max_wait_time); the sleep adds a random
\* jitter of at most a tenth of it
Backoff(n) == IF base_wait_time * (2 ^ n) < max_wait_time THEN base_wait_time * (2 ^ n) ELSE max_wait_time

\* the call before its first request; asked, first, n429 and exponential
\* record what the service answered and how the last wait was computed
NewCall ==
    [attempt |-> 0, server_error_count |-> 0, outcome |-> "running", asked |-> 0,
     sleeps |-> 0, wait_time |-> 0, response |-> "None", first |-> "None",
     n429 |-> 0, exponential |-> FALSE]

InitBackoff ==
    /\ PolicyInit /\ cls = NoCall /\ ConcIdle /\ DbEmpty
    /\ remote = [m \in Models |-> [created_at |-> 1, lastModified |-> 1]]
    /\ now = 1
    /\ run = 0
    /\ dry_run = FALSE
    /\ pc = "backoff"
    /\ candidates = <<>>
    /\ queue = <<>>
    /\ qi = 0
    /\ stats = NewStats
    /\ author_run_cache = <<>>
    /\ seen_signatures = <<>>
    /\ processed_models = <<>>
    /\ hist = NoHist
    /\ cur = NewCall

\* one turn of the while True loop: a request and what follows its answer
BackoffAfter(c, response, retry_after) ==
    LET c1 == [c EXCEPT !.attempt = @ + 1, !.asked = @ + 1, !.response = response,
                        !.first = IF c.asked = 0 THEN response ELSE @,
                        !.n429 = IF response = "429" THEN @ + 1 ELSE @]
    IN  IF response \in {"Timeout", "ConnectionError"} THEN [c1 EXCEPT !.outcome = "raised"]
        ELSE IF response = "200" THEN [c1 EXCEPT !.outcome = "returned"]
        ELSE IF response = "429"
        THEN IF retry_after = "30"
             THEN [c1 EXCEPT !.wait_time = 30, !.sleeps = @ + 1, !.exponential = FALSE]
             ELSE [c1 EXCEPT !.wait_time = Backoff(c1.attempt - 1), !.sleeps = @ + 1,
                             !.exponential = TRUE]
        ELSE IF response = "500"
        THEN LET c2 == [c1 EXCEPT !.server_error_count = @ + 1]
             IN  IF c2.server_error_count >= max_5xx_retries
                 THEN [c2 EXCEPT !.outcome = "raised"]
                 ELSE [c2 EXCEPT !.wait_time = Backoff(c2.server_error_count - 1),
                                 !.sleeps = @ + 1, !.exponential = TRUE]
        ELSE IF response = "401" THEN [c1 EXCEPT !.outcome = "raised"]
        ELSE c1

RequestWithBackoff ==
    /\ pc = "backoff"
    /\ cur.attempt < MaxRequests
    /\ \E response \in BackoffResponses, retry_after \in RetryAfters :
          /\ cur' = BackoffAfter(cur, response, retry_after)
          /\ pc' = IF cur'.outcome = "running" THEN "backoff" ELSE "backoff_done"
    /\ UNCHANGED <<policyVars, cls, concVars, dbVars, worldVars, dry_run, candidates,
                   queue, qi, stats, author_run_cache, seen_signatures,
                   processed_models, hist>>

NextBackoff == RequestWithBackoff
SpecBackoff == InitBackoff /\ [][NextBackoff]_vars

(***************************************************************************)
(* database.py: upserts into the learned lists                              *)
(***************************************************************************)

\* the most upsert calls that are followed
MaxUpserts == 3

UpsertNamespaces == {Null, <<"a">>}
UpsertCounts == {NoCount, 1, 3}
UpsertReasons == {"skip:no_readme", "tier3_org"}
\* the additions dict of one call
UpsertAdditions == UNION {[S -> UpsertCounts] : S \in SUBSET UpsertNamespaces}

\* what the calls so far said about a namespace: when it first came, when and
\* why it came last, the largest and the latest count, the number of upserts
NoSeenRow == [first |-> NoStamp, last |-> NoStamp, reason |-> "None", max |-> 0, latest |-> 0, n |-> 0]
Seen(log, additions, reason, at) ==
    [ns \in UpsertNamespaces |->
        IF ns = Null /\ ns \in DOMAIN additions THEN [NoSeenRow EXCEPT !.n = 1]
        ELSE IF ns \in DOMAIN additions
        THEN [first |-> IF log[ns].n = 0 THEN at ELSE log[ns].first,
              last |-> at, reason |-> reason,
              max |-> IF log[ns].max > IntOr0(additions[ns])
                      THEN log[ns].max ELSE IntOr0(additions[ns]),
              latest |-> IntOr0(additions[ns]), n |-> log[ns].n + 1]
        ELSE log[ns]]

InitUpsert ==
    /\ PolicyInit /\ cls = NoCall /\ ConcIdle /\ DbEmpty
    /\ remote = [m \in Models |-> [created_at |-> 1, lastModified |-> 1]]
    /\ now = 1
    /\ run = 0
    /\ dry_run = FALSE
    /\ pc = "upsert"
    /\ candidates = <<>>
    /\ queue = <<>>
    /\ qi = 0
    /\ stats = NewStats
    /\ author_run_cache = <<>>
    /\ seen_signatures = <<>>
    /\ processed_models = <<>>
    /\ hist = NoHist
    /\ cur = [calls |-> 0, deny |-> [ns \in UpsertNamespaces |-> NoSeenRow],
              allow |-> [ns \in UpsertNamespaces |-> NoSeenRow]]

\* db.upsert_dynamic_blacklist(additions, reason)
UpsertDeny ==
    /\ pc = "upsert"
    /\ cur.calls < MaxUpserts
    /\ \E additions \in UpsertAdditions, reason \in UpsertReasons :
          /\ db_dynbl' = IF DOMAIN additions = {} THEN db_dynbl
                         ELSE upsert_dynamic_blacklist(db_dynbl, additions, reason)
          /\ cur' = [cur EXCEPT !.calls = @ + 1, !.deny = Seen(@, additions, reason, now)]
    /\ UNCHANGED <<policyVars, cls, concVars, db_models, db_authors, db_last_run, db_dynwl,
                   worldVars, dry_run, pc, candidates, queue, qi, stats,
                   author_run_cache, seen_signatures, processed_models, hist>>

\* db.upsert_dynamic_whitelist(additions, reason)
UpsertAllow ==
    /\ pc = "upsert"
    /\ cur.calls < MaxUpserts
    /\ \E additions \in UpsertAdditions, reason \in UpsertReasons :
          /\ db_dynwl' = IF DOMAIN additions = {} THEN db_dynwl
                         ELSE upsert_dynamic_whitelist(db_dynwl, additions, reason)
          /\ cur' = [cur EXCEPT !.calls = @ + 1, !.allow = Seen(@, additions, reason, now)]
    /\ UNCHANGED <<policyVars, cls, concVars, db_models, db_authors, db_last_run, db_dynbl,
                   worldVars, dry_run, pc, candidates, queue, qi, stats,
                   author_run_cache, seen_signatures, processed_models, hist>>

\* the clock between two calls (datetime.now)
UpsertClock ==
    /\ pc = "upsert"
    /\ now <= MaxUpserts
    /\ now' = now + 1
    /\ UNCHANGED <<policyVars, cls, concVars, dbVars, remote, run, dry_run, pc, candidates,
                   queue, qi, stats, author_run_cache, seen_signatures,
                   processed_models, hist, cur>>

NextUpsert == UpsertDeny \/ UpsertAllow \/ UpsertClock
SpecUpsert == InitUpsert /\ [][NextUpsert]_vars

(***************************************************************************)
(* hf_client.HFClient: _make_request, get_org_details, get_user_overview   *)
(***************************************************************************)

max_retries == 3

\* what requests.request() does on one attempt: a response with a status, a
\* body and (for 429) a Retry-After header, or a RequestException
HttpAnswer(status, body, retry_after) == [status |-> status, body |-> body, retry_after |-> retry_after]
HttpAnswers ==
    {HttpAnswer("200", "record", ""), HttpAnswer("200", "invalid", ""),
     HttpAnswer("404", "", ""), HttpAnswer("403", "", ""), HttpAnswer("500", "", ""),
     HttpAnswer("429", "", ""), HttpAnswer("429", "", "30"), HttpAnswer("429", "", "date"),
     HttpAnswer("RequestException", "", "")}
\* return None of _make_request, and an exception that leaves it
NoResponse == HttpAnswer("None", "", "")
Raised == HttpAnswer("raised", "", "")

\* a lookup that takes every failure for an absence
LookupErrorIsAbsent(resp) ==
    IF resp.status = "200" /\ resp.body = "record" THEN "record" ELSE "empty"

\* get_org_details, from what _make_request gave: the record, {} or None
get_org_details(resp) ==
    IF resp = Raised THEN "None"
    ELSE IF resp = NoResponse THEN "None"
    ELSE IF resp.status = "200" THEN (IF resp.body = "invalid" THEN "None" ELSE "record")
    ELSE IF resp.status = "404" THEN "empty"
    ELSE "None"

\* get_user_overview, from what _make_request gave
get_user_overview(resp) ==
    IF resp = Raised THEN "None"
    ELSE IF resp = NoResponse THEN "None"
    ELSE IF resp.status = "200" THEN (IF resp.body = "invalid" THEN "None" ELSE "record")
    ELSE IF resp.status = "404" THEN "empty"
    ELSE "None"

\* one lookup before its first attempt
NewLookup(fn) ==
    [fn |-> fn, i |-> 0, requests |-> 0, sleeps |-> <<>>, answers |-> <<>>,
     resp |-> NoResponse, value |-> "pending"]

InitLookup ==
    /\ PolicyInit /\ cls = NoCall /\ ConcIdle /\ DbEmpty
    /\ remote = [m \in Models |-> [created_at |-> 1, lastModified |-> 1]]
    /\ now = 1
    /\ run = 0
    /\ dry_run = FALSE
    /\ pc = "lookup"
    /\ candidates = <<>>
    /\ queue = <<>>
    /\ qi = 0
    /\ stats = NewStats
    /\ author_run_cache = <<>>
    /\ seen_signatures = <<>>
    /\ processed_models = <<>>
    /\ hist = NoHist
    /\ \E fn \in {"get_org_details", "get_user_overview"} : cur = NewLookup(fn)

\* the lookup returns: its value from what _make_request gave
LookupReturns(c, resp) ==
    [c EXCEPT !.resp = resp,
              !.value = IF c.fn = "get_org_details" THEN get_org_details(resp)
                        ELSE get_user_overview(resp)]

\* one turn of the for loop of _make_request, and the return when it was the last
MakeRequest ==
    /\ pc = "lookup"
    /\ cur.i < max_retries
    /\ \E answer \in HttpAnswers :
        LET c1 == [cur EXCEPT !.requests = @ + 1, !.answers = Append(@, answer.status)]
            last == cur.i + 1 = max_retries
        IN  IF answer.status = "RequestException"
            THEN IF cur.i < max_retries - 1
                 THEN /\ cur' = [c1 EXCEPT !.i = @ + 1, !.sleeps = Append(@, 2)]
                      /\ pc' = "lookup"
                 ELSE /\ cur' = LookupReturns(c1, NoResponse)
                      /\ pc' = "lookup_done"
            ELSE IF answer.status = "429"
            THEN IF answer.retry_after = "date"
                 THEN /\ cur' = LookupReturns(c1, Raised)
                      /\ pc' = "lookup_done"
                 ELSE LET wait_time == IF answer.retry_after = "30" THEN 30
                                       ELSE 10 * (cur.i + 1)
                          c2 == [c1 EXCEPT !.i = @ + 1, !.sleeps = Append(@, wait_time)]
                      IN  /\ cur' = IF last THEN LookupReturns(c2, NoResponse) ELSE c2
                          /\ pc' = IF last THEN "lookup_done" ELSE "lookup"
            ELSE /\ cur' = LookupReturns(c1, answer)
                 /\ pc' = "lookup_done"
    /\ UNCHANGED <<policyVars, cls, concVars, dbVars, worldVars, dry_run, candidates,
                   queue, qi, stats, author_run_cache, seen_signatures,
                   processed_models, hist>>

NextLookup == MakeRequest
SpecLookup == InitLookup /\ [][NextLookup]_vars

(***************************************************************************)
(* Claims                                                                  *)
(***************************************************************************)
\* C1: after any sequence of set_dynamic_blacklist / set_dynamic_whitelist calls,
\* classify_namespace answers deny_blacklist with reason skip:blacklisted_namespace
\* for every namespace whose normalized form is in the static or the learned
\* deny-list, also when it is in the static or the learned allow-list.
C1_DenyWins ==
    /\ \A ns \in RawNamespaces :
        normalize_namespace(ns) \in (BASE_BLACKLIST \cup DYNAMIC_BLACKLIST)
            => classify_namespace(ns) = <<"deny_blacklist", "skip:blacklisted_namespace">>
    /\ (cls.decision # "none"
        /\ normalize_namespace(cls.arg) \in (BASE_BLACKLIST \cup DYNAMIC_BLACKLIST))
            => (cls.decision = "deny_blacklist" /\ cls.reason = "skip:blacklisted_namespace")

\* a learned deny entry that is also learned-allowed and statically allowed was classified
C1_Witness ==
    /\ cls.decision = "deny_blacklist"
    /\ normalize_namespace(cls.arg) \in DYNAMIC_BLACKLIST \ BASE_BLACKLIST
    /\ normalize_namespace(cls.arg) \in DYNAMIC_WHITELIST \cap BASE_WHITELIST
    /\ BASE_BLACKLIST \cap BASE_WHITELIST # {}

\* C8: when a reload (set_dynamic_blacklist, set_dynamic_whitelist) runs concurrently
\* with classify_namespace, each membership test of the classification sees a combined
\* set that is exactly static + learned: the pair (learned set, combined set) it reads is
\* never half-updated, and the combined set is the one the last completed reload left.
C8_NoPartialSet ==
    /\ th_seen.bl # NoSeen.bl =>
        /\ th_seen.bl = BASE_BLACKLIST \cup th_seen.bl_dyn
        /\ th_seen.bl = th_seen.bl_pre
    /\ th_seen.wl # NoSeen.wl =>
        /\ th_seen.wl = BASE_WHITELIST \cup th_seen.wl_dyn
        /\ th_seen.wl = th_seen.wl_pre
    /\ th_pc[Reader] = "test_bl" => BLACKLIST = BASE_BLACKLIST \cup DYNAMIC_BLACKLIST
    /\ th_pc[Reader] = "test_wl" => WHITELIST = BASE_WHITELIST \cup DYNAMIC_WHITELIST

\* a classification passed both membership tests while a blacklist reload that changes
\* the learned set was waiting for, or holding, its lock
C8_Witness ==
    /\ th_seen.wl # NoSeen.wl
    /\ th_seen.bl # NoSeen.bl
    /\ th_pc[BlWriter] \in {"acquire", "store_dynamic", "store_combined"}
    /\ th_loc[BlWriter] # th_seen.bl_dyn
    /\ th_pc[WlWriter] \in {"acquire", "store_dynamic", "store_combined", "release"}

\* the identities in the processing queue
QueueIds == {queue[i].id : i \in 1..Len(queue)}
\* change detection of the current run is over and its lists are in place
Detected == pc \in {"loop", "prefetch", "readme", "quality", "analysis", "learn",
                    "report", "watermark"}

\* C2: after change detection each deduplicated candidate is in the queue exactly
\* once or is counted as a no-op, never both and never neither, so
\* stats.queued + stats.noop_unchanged = stats.candidates_total.
C2_OneDecisionEach ==
    Detected =>
        /\ \A i, j \in 1..Len(candidates) : candidates[i].id = candidates[j].id => i = j
        /\ \A i, j \in 1..Len(queue) : queue[i].id = queue[j].id => i = j
        /\ QueueIds \subseteq Ids(candidates)
        /\ stats.queued = Cardinality(QueueIds)
        /\ stats.noop_unchanged = Cardinality(Ids(candidates) \ QueueIds)
        /\ stats.candidates_total = Cardinality(Ids(candidates))
        /\ stats.queued + stats.noop_unchanged = stats.candidates_total
C2_Witness ==
    /\ pc = "loop"
    /\ qi = 1
    /\ stats.candidates_total = 2
    /\ stats.queued = 1
    /\ stats.noop_unchanged = 1

\* C3: a candidate is queued iff its identity is absent from the persisted model
\* table, or its persisted last-modified value is missing, or its remote
\* last-modified is strictly later than the persisted one; a persisted candidate
\* with an equal or earlier remote timestamp is a no-op.
C3_QueuedIffNewOrLater ==
    Detected =>
        \A i \in 1..Len(candidates) :
            LET info == candidates[i]
                row == hist.models_at_start[info.id]
            IN  /\ info.id \in QueueIds <=>
                        \/ ~row.present
                        \/ row.last_modified = Null
                        \/ /\ info.lastModified # NoStamp
                           /\ info.lastModified > ParseTimestamp(row.last_modified)
                /\ (/\ row.present
                    /\ row.last_modified # Null
                    /\ info.lastModified # NoStamp
                    /\ info.lastModified <= ParseTimestamp(row.last_modified))
                   => info.id \notin QueueIds
C3_Witness ==
    /\ pc = "loop"
    /\ qi = 1
    /\ \E i \in 1..Len(queue) : queue[i].reason = "Update Detected"
    /\ \E i \in 1..Len(queue) : queue[i].reason = "Missing Timestamp"

\* C4: when a non-dry run is followed by a second run from the persisted state
\* the first left, the registry unchanged in between, change detection in the
\* second run queues none of the candidates the first run discovered.
C4_SecondRunQueuesNothingAgain ==
    (Detected /\ run = 2 /\ ~hist.prev_dry /\ hist.changed = {}) =>
        \A i \in 1..Len(candidates) :
            candidates[i].id \in hist.prev_ids => candidates[i].id \notin QueueIds

\* C5: an exception raised while one candidate is processed is recorded as exactly
\* one skip:exception for that candidate, the loop goes on to the next candidate,
\* every queued candidate is visited, and learning and the report are reached.
C5_ExceptionIsolated ==
    /\ [](/\ pc # "crashed"
          /\ Get(stats.skip_reasons, "skip:exception") = Cardinality(hist.raised)
          /\ cur.raised =>
                /\ cur.outcome = "skip:exception"
                /\ cur.skips = 1
                /\ stats.skip_items[Len(stats.skip_items)].model_id = cur.id
                /\ stats.skip_items[Len(stats.skip_items)].reason = "skip:exception"
          /\ pc \in {"learn", "report", "watermark", "done"} =>
                hist.visited = Len(queue)
          /\ pc = "done" => hist.learned)
    /\ (hist.raised # {}) ~>
            (pc = "done" /\ hist.visited = Len(queue) /\ hist.learned /\ hist.reported)
C5_Witness ==
    /\ pc = "done"
    /\ hist.raised = {1}
    /\ hist.visited = 2
    /\ stats.processed = 1
    /\ hist.reported

\* the first gate of an ordered chain that is in the denied set
FirstDenial(order, denied) ==
    order[CHOOSE i \in 1..Len(order) :
            /\ order[i] \in denied
            /\ \A j \in 1..(i - 1) : order[j] \notin denied]

\* C6: when a gate denies, the chain stops and the recorded skip reason is the
\* denial reason of the first gate in chain order that denied, also after
\* security warnings and when several pre-fetch gates deny.
C6_FirstDenialRecorded ==
    /\ (cur.gates \cap PreGates # {} /\ ~cur.raised) =>
            /\ cur.outcome = FirstDenial(PreGateOrder, cur.gates \cap PreGates)
            /\ "get_model_readme" \notin cur.calls
    /\ (cur.gates \cap {PostGates[i] : i \in 1..Len(PostGates)} # {} /\ ~cur.raised) =>
            /\ cur.outcome = FirstDenial(PostGates, cur.gates)
            /\ "estimate_parameters" \notin cur.calls

\* C7: a candidate classified deny_blacklist ends with exactly one skip, reason
\* skip:blacklisted_namespace, before tier computation: no author cache read, no
\* lookup, no file listing, README, parameter estimate or analysis call.
C7_DenyShortCircuits ==
    cur.decision = "deny_blacklist" =>
        /\ cur.outcome = "skip:blacklisted_namespace"
        /\ cur.skips = 1
        /\ cur.calls = {"classify_namespace"}
        /\ cur.org_data = "notcalled"
        /\ cur.user_data = "notcalled"
        /\ stats.skip_items[Len(stats.skip_items)] =
                [model_id |-> cur.id, reason |-> "skip:blacklisted_namespace",
                 author |-> cur.uploader]
C7_Witness ==
    /\ cur.decision = "deny_blacklist"
    /\ cur.id = <<"b", "/", "x">>
    /\ qi = 3
    /\ hist.visited = 2

\* the candidate in hand went through the author tier code
TierAssigned ==
    /\ ~cur.raised
    /\ cur.decision \in {"allow", "allow_whitelist"}
    /\ pc \in {"prefetch", "readme", "quality", "analysis"} \/ cur.outcome # "none"

C10_IndeterminateNotCached ==
    /\ \A n \in hist.indeterminate :
            /\ db_authors[n] = hist.authors_at_start[n]
            /\ n \in DOMAIN author_run_cache
            /\ author_run_cache[n].kind = "unknown"
    /\ (/\ ~cur.raised
        /\ cur.org_data = "none" \/ (cur.org_data = "empty" /\ cur.user_data = "none"))
       => /\ cur.author_kind = "unknown"
          /\ "upsert_author" \notin cur.calls
          /\ cur.namespace \in hist.indeterminate
C10_Witness ==
    /\ cur.org_data = "empty"
    /\ cur.user_data = "none"
    /\ cur.namespace \in hist.indeterminate
    /\ db_authors[cur.namespace].present
    /\ db_authors[cur.namespace].kind = "org"

\* C11: a namespace that the lookups determinately found to be neither an
\* organisation nor an individual is persisted with kind unknown, and a later
\* run that starts within the freshness window of that record resolves the
\* namespace from the record without repeating either lookup.
C11_UnknownCachedNotRetried ==
    pc = "prefetch" /\ cur.namespace \in Namespaces =>
        /\ (cur.org_data = "empty" /\ cur.user_data = "empty" =>
                /\ db_authors[cur.namespace].present
                /\ db_authors[cur.namespace].kind = "unknown")
        /\ LET row == hist.authors_at_start[cur.namespace]
           IN  (row.present /\ row.kind = "unknown"
                /\ now - row.last_checked < AUTHOR_FRESH_DAYS) =>
                   cur.calls \cap {"get_org_details", "get_user_overview"} = {}

\* the uploaders of the run's skips, and one uploader's counts
SkippedUploaders == {stats.uploaders[i] : i \in 1..Len(stats.uploaders)}
NoReadmeCount(uploader) == Get(stats.skip_reasons_by_uploader, <<uploader, "skip:no_readme">>)
OtherCounts(uploader) ==
    {stats.skip_reasons_by_uploader[k] :
        k \in {j \in DOMAIN stats.skip_reasons_by_uploader :
                    j[1] = uploader /\ j[2] # "skip:no_readme"}}
Listed(uploader) ==
    \/ normalize_namespace(uploader) \in WHITELIST
    \/ normalize_namespace(uploader) \in BASE_BLACKLIST

\* C12: after the learning pass of a non-dry run, every namespace that is on no
\* allow-list and not on the static deny-list, whose skip:no_readme count
\* reaches the threshold (equality included) and exceeds its count of every
\* other reason, is in the learned deny-list table with that count and the
\* reason skip:no_readme, and classify_namespace denies it.
C12_PromotedAtThreshold ==
    hist.learned /\ ~dry_run =>
        \A u \in SkippedUploaders :
            (/\ normalize_namespace(u) # <<>>
             /\ ~Listed(u)
             /\ NoReadmeCount(u) >= DYNAMIC_BLACKLIST_NO_README_MIN
             /\ \A n \in OtherCounts(u) : n < NoReadmeCount(u)) =>
                /\ normalize_namespace(u) \in DOMAIN db_dynbl
                /\ db_dynbl[normalize_namespace(u)].count = NoReadmeCount(u)
                /\ db_dynbl[normalize_namespace(u)].reason = "skip:no_readme"
                /\ classify_namespace(u)[1] = "deny_blacklist"

\* a namespace promoted with exactly the threshold count while it also has a
\* less frequent other skip reason
C12_Witness ==
    /\ hist.learned /\ ~dry_run
    /\ \E u \in SkippedUploaders :
            /\ ~Listed(u)
            /\ NoReadmeCount(u) = DYNAMIC_BLACKLIST_NO_README_MIN
            /\ OtherCounts(u) # {}
            /\ \A n \in OtherCounts(u) : n < NoReadmeCount(u)
            /\ normalize_namespace(u) \in DOMAIN db_dynbl
            /\ classify_namespace(u)[1] = "deny_blacklist"

\* C13: the learning pass never adds a namespace whose skip:no_readme count is
\* below the threshold, or for which a different skip reason is equally or
\* more frequent, or which is on the static or learned allow-list or on the
\* static deny-list.
C13_NeverPromotedOtherwise ==
    hist.learned =>
        \A u \in SkippedUploaders :
            (\/ NoReadmeCount(u) < DYNAMIC_BLACKLIST_NO_README_MIN
             \/ \E n \in OtherCounts(u) : n >= NoReadmeCount(u)
             \/ Listed(u)) =>
                normalize_namespace(u) \notin hist.promoted

\* C14: every estimate with a known total has active_params <= total_params,
\* and active_params = total_params when is_moe is false.
C14_ActiveWithinTotal ==
    pc = "estimated" /\ Truthy(cur.pe.total_params) =>
        /\ cur.pe.active_params <= cur.pe.total_params
        /\ (~cur.pe.is_moe => cur.pe.active_params = cur.pe.total_params)

\* the cascade steps of one call that yield a count
YieldsMeta ==
    cur.prefer /\ cur.meta.state = "ok" /\ SumSeq(cur.meta.parameter_count) > 0
YieldsConfig == cur.cfg.present /\ Truthy(heuristic_params_from_config(cur.cfg).total_params)
YieldsFilesize == Truthy(estimate_from_filesize(cur.file_details))

\* C15: the total is the count of the first cascade step that yields one
\* (safetensors metadata, config heuristic, file-size fallback), the source tag
\* names that step, and the tag is unknown exactly when there is no total.
C15_FirstYieldingStep ==
    pc = "estimated" =>
        /\ (YieldsMeta =>
                /\ cur.pe.total_params = SumSeq(cur.meta.parameter_count)
                /\ cur.pe.source = "safetensors_metadata")
        /\ (~YieldsMeta /\ YieldsConfig =>
                /\ cur.pe.total_params = heuristic_params_from_config(cur.cfg).total_params
                /\ cur.pe.source = "config_heuristic")
        /\ (~YieldsMeta /\ ~YieldsConfig /\ YieldsFilesize =>
                /\ cur.pe.total_params = estimate_from_filesize(cur.file_details)
                /\ cur.pe.source = "filesize_fallback")
        /\ (cur.pe.source = "unknown" <=> ~Truthy(cur.pe.total_params))
        /\ (cur.pe.source = "unknown" <=> ~(YieldsMeta \/ YieldsConfig \/ YieldsFilesize))

\* no metadata count, and both the config and the file sizes yield one
C15_Witness ==
    /\ pc = "estimated"
    /\ ~YieldsMeta /\ YieldsConfig /\ YieldsFilesize
    /\ cur.pe.source = "config_heuristic"

\* the quotes cited by the evidence of the checked result
CitedQuotes ==
    {cur.given.evidence[i] : i \in 1..Len(cur.given.evidence)} \ {<<>>}

\* C16: when evidence is required, the confidence is set to its lowest value
\* and a note says why exactly when the evidence list is empty or a cited
\* quote fails all three containment passes, otherwise the confidence is left
\* as it was and the note says that evidence passed; adding a verbatim README
\* substring as a quote never downgrades the confidence; an evidence list
\* without any quote always yields the lowest confidence.
C16_EvidenceValidation ==
    pc = "evidence_checked" /\ cur.require =>
        /\ IF \/ cur.given.evidence = <<>>
              \/ \E q \in CitedQuotes : ~quote_in_readme(q, cur.readme_content)
           THEN /\ cur.llm_result.confidence = "low"
                /\ cur.report_notes \in {<<"Evidence: Missing">>, <<"Evidence: Mismatch">>}
           ELSE /\ cur.llm_result.confidence = cur.given.confidence
                /\ cur.report_notes = <<"Evidence: Passed">>
        /\ (/\ cur.added # <<>>
            /\ cur.added[Len(cur.added)] # <<>>
            /\ Contains(cur.readme_content, cur.added[Len(cur.added)])
            /\ cur.confidence_before = cur.given.confidence) =>
                cur.llm_result.confidence = cur.given.confidence
        /\ (CitedQuotes = {} => cur.llm_result.confidence = "low")

\* C17: within one run, of the candidates that reach the duplicate gate with
\* the same content signature (same normalised README, same set of non-README
\* paths), the first one passes and stays the canonical of the signature;
\* every later one with another identity is skipped with
\* skip:duplicate_signature naming the first identity.
C17_FirstSignatureCanonical ==
    /\ \A sig \in DOMAIN hist.first_sig :
            /\ sig \in DOMAIN seen_signatures
            /\ seen_signatures[sig] = hist.first_sig[sig].id
            /\ compute_repo_signature(hist.first_sig[sig].content) = sig
    /\ cur.sig # <<>> =>
            /\ cur.sig = compute_repo_signature(cur.content)
            /\ cur.sig \in DOMAIN hist.first_sig
            /\ IF hist.first_sig[cur.sig].id = cur.id
               THEN cur.outcome # "skip:duplicate_signature"
               ELSE /\ cur.outcome = "skip:duplicate_signature"
                    /\ cur.canonical = hist.first_sig[cur.sig].id

\* a later candidate skipped as the duplicate of the first although its README
\* and its listing differ from the first one's as texts
C17_Witness ==
    /\ cur.sig # <<>>
    /\ cur.outcome = "skip:duplicate_signature"
    /\ cur.canonical # cur.id
    /\ hist.first_sig[cur.sig].content.readme # cur.content.readme
    /\ hist.first_sig[cur.sig].content.paths # cur.content.paths

\* C18: the watermark is advanced only at the end of a non-dry run, after
\* every queued candidate was processed and the learning pass ran; a run
\* abandoned earlier leaves it unchanged, and the next run discovers again
\* every candidate of the interrupted run and processes again each of them
\* that was not persisted.
C18_WatermarkAtLeastOnce ==
    /\ (run > 0 /\ db_last_run # hist.last_run_at_start =>
            /\ pc = "done" /\ ~hist.interrupted /\ ~dry_run
            /\ hist.learned /\ qi > Len(queue)
            /\ db_last_run = now)
    /\ (hist.interrupted /\ pc \in {"detect", "loop"} =>
            hist.prev_ids \subseteq Ids(candidates))
    /\ (hist.interrupted /\ pc = "loop" =>
            \A m \in hist.prev_ids : ~db_models[m].present => m \in QueueIds)

\* C19: in a run where every analysis call fails, the report has no entry, and
\* every candidate that reached the analysis step is written to the model
\* table with its trust tier and kind all the same.
C19_AnalysisDownStillPersists ==
    (/\ pc = "loop" /\ ~dry_run
     /\ "analyze_model" \in cur.calls
     /\ stats.llm_analyzed > 0 /\ stats.llm_succeeded = 0) =>
        /\ processed_models = <<>>
        /\ db_models[cur.id].present
        /\ db_models[cur.id].trust_tier = cur.trust_tier
        /\ db_models[cur.id].author_kind = cur.author_kind

\* C20: a candidate denied by a pre-fetch gate (generative/visual, disallowed
\* content, export/conversion) is skipped without a README fetch, a parameter
\* estimate or an analysis call.
C20_PrefetchDenySkipsFetch ==
    cur.gates \cap PreGates # {} =>
        /\ cur.skips = 1
        /\ cur.outcome # "none"
        /\ cur.calls \cap {"get_model_readme", "estimate_parameters", "analyze_model"} = {}

\* a candidate denied by the export/conversion gate alone, after its file
\* listing was fetched
C20_Witness ==
    /\ cur.gates = {"skip:export_conversion"}
    /\ "get_model_file_details" \in cur.calls
    /\ cur.skips = 1
    /\ pc = "loop"

\* the security findings of a file listing, counted file by file
FindingCount(file_details) ==
    IF ~file_details.listed THEN 0
    ELSE Cardinality({i \in 1..Len(file_details.files) :
                        file_details.files[i].status \in {"unsafe", "malicious", "infected"}})
         + Cardinality({i \in 1..Len(file_details.files) :
                        file_details.files[i].kind = "exe"})

\* C21: a security finding in the file listing only produces warnings: every
\* entry security_warnings returns is a warning, each one adds one to
\* stats.warned and none to stats.skipped, and the pre-fetch step skips the
\* candidate exactly when a pre-fetch gate denied (or an exception was raised),
\* as it does for a listing without findings.
C21_SecurityOnlyWarns ==
    [][pc = "prefetch" =>
        /\ \A i \in 1..Len(security_warnings(cur'.file_details)) :
                security_warnings(cur'.file_details)[i]
                    \in {"warn:security_scan_flagged", "warn:executable_file_present"}
        /\ stats'.warned = stats.warned + FindingCount(cur'.file_details)
        /\ stats'.skipped = stats.skipped + (IF pc' = "loop" THEN 1 ELSE 0)
        /\ (pc' = "loop") =
                (cur'.raised \/ PrefetchSkipReason(FilterTrace(<<>>, cur'.gates)) # "")
        /\ (pc' # "loop" => pc' = "readme")]_vars

\* a candidate with a flagged file that no gate denied went through the whole
\* chain into the report, with one warning and no skip counted
C21_Witness ==
    /\ cur.outcome = "processed"
    /\ FindingCount(cur.file_details) = 1
    /\ stats.warned = 1
    /\ stats.skipped = 0
    /\ stats.processed = 1

\* the skips recorded for an uploader under one reason, read off the item list
SkipItemCount(uploader, reason) ==
    Cardinality({i \in 1..Len(stats.skip_items) :
                    /\ stats.skip_items[i].author = uploader
                    /\ stats.skip_items[i].reason = reason})

\* the file listing of the candidate in hand lists a README-like file
ListsReadme ==
    \E i \in 1..Len(cur.file_details.files) : cur.file_details.files[i].kind = "readme"

\* C22: when the README fetch returns nothing, skip:no_readme is recorded only
\* if the file listing was obtained and lists no README-like file; with the
\* listing unavailable or listing one, the candidate gets
\* skip:readme_fetch_failed and the warning warn:readme_fetch_failed; and a
\* namespace is promoted to the learned deny-list only on its skip:no_readme
\* count, which fetch failures do not feed.
C22_AbsentVersusFetchFailed ==
    /\ (cur.readme = "none" /\ ~cur.raised) =>
            /\ cur.outcome \in {"skip:no_readme", "skip:readme_fetch_failed"}
            /\ (cur.outcome = "skip:no_readme") =
                    (cur.file_details.listed /\ ~ListsReadme)
            /\ stats.skip_items[Len(stats.skip_items)] =
                    [model_id |-> cur.id, reason |-> cur.outcome, author |-> cur.uploader]
            /\ cur.outcome = "skip:readme_fetch_failed" =>
                    stats.warn_items[Len(stats.warn_items)] =
                        [model_id |-> cur.id, reason |-> "warn:readme_fetch_failed",
                         author |-> cur.uploader]
    /\ cur.outcome \in {"skip:no_readme", "skip:readme_fetch_failed"} => cur.readme = "none"
    /\ pc \in {"report", "watermark", "done"} =>
            /\ \A ns \in hist.promoted :
                    \E u \in Namespaces :
                        /\ normalize_namespace(u) = ns
                        /\ SkipItemCount(u, "skip:no_readme")
                                >= DYNAMIC_BLACKLIST_NO_README_MIN
            /\ DOMAIN db_dynbl = hist.promoted

\* a real run in which both candidates of one namespace failed their README
\* fetch (one without a listing, one listing a README) and the learning pass
\* left the learned deny-list empty
C22_Witness ==
    /\ pc = "report"
    /\ ~dry_run
    /\ SkipItemCount(<<"a">>, "skip:readme_fetch_failed") = 2
    /\ cur.readme = "none"
    /\ cur.file_details.listed
    /\ ListsReadme
    /\ stats.warned >= 2
    /\ db_dynbl = <<>>

\* the denials of the quality gate that only tier 1 is held to, and all of them
Tier1Reasons ==
    {"skip:roleplay_content", "skip:low_info_score", "skip:template_finetune_unsloth",
     "skip:finetune_from_quant_base"}
QualityReasons == Tier1Reasons \cup {"skip:boilerplate_readme"}

\* C23: the roleplay, low documentation score, template-finetune and
\* quantized-base denials are recorded only for candidates that are not
\* allow-listed and have trust tier 1, and no allow-listed candidate is skipped
\* with any quality-gate reason.
C23_QualityGateTierOneOnly ==
    /\ cur.outcome \in Tier1Reasons => (~cur.is_whitelisted /\ cur.trust_tier = 1)
    /\ cur.outcome \in QualityReasons => cur.decision # "allow_whitelist"
    /\ \A i \in 1..Len(stats.skip_items) :
            stats.skip_items[i].reason \in QualityReasons =>
                classify_namespace(stats.skip_items[i].author)[1] # "allow_whitelist"
    /\ (cur.outcome \in Tier1Reasons /\ cur.namespace \in DOMAIN author_run_cache) =>
            author_run_cache[cur.namespace].trust_tier = 1

\* a tier-2 individual whose README is flagged as roleplay with a low
\* documentation score went through the quality gate into the report
C23_Witness ==
    /\ cur.trust_tier = 2
    /\ ~cur.is_whitelisted
    /\ {"roleplay", "low_info"} \subseteq cur.gates
    /\ cur.outcome = "processed"

\* the identities the two feeds supplied, the ones the resolver was asked for
FeedIds == Ids(cur.recent_models) \cup Ids(cur.updated_models)
AskedIds == {cur.calls[i].mid : i \in 1..Len(cur.calls)}
ExtraIds == {cur.extra_ids[i] : i \in 1..Len(cur.extra_ids)}

C25_LearnedAllowListApplies ==
    (/\ TierAssigned
     /\ normalize_namespace(cur.namespace) \in NormalizedKeys(DOMAIN db_dynwl)
     /\ normalize_namespace(cur.namespace) \notin BLACKLIST) =>
        /\ cur.decision = "allow_whitelist"
        /\ cur.is_whitelisted
        /\ cur.trust_tier = 3

\* C26: a learned deny-list entry ages out: when a run ends, no row of the
\* persisted learned deny-list has a last-seen older than the retention
\* window, and the classifier's learned deny-list holds no such namespace.
C26_LearnedDenyAgesOut ==
    (pc = "done" /\ run > 0) =>
        /\ \A ns \in DOMAIN db_dynbl : now - db_dynbl[ns].last_seen <= RETENTION_DAYS
        /\ DYNAMIC_BLACKLIST \subseteq NormalizedKeys(DOMAIN db_dynbl)

\* the candidate in hand is the one of its namespace for which the run read the
\* persisted author record; the record as the run found it
ReadsRecord ==
    /\ "get_author" \in cur.calls
    /\ ~cur.raised
    /\ cur.namespace \in Namespaces
RecordAtStart == hist.authors_at_start[cur.namespace]

\* C27: a persisted author record of kind organization or individual checked
\* less than 14 days ago is used as it is, with no external lookup and no
\* rewrite; an absent record or one 14 or more days old triggers the
\* organization lookup; and a record is rewritten in a run only after a
\* determinate lookup answer.
C27_AuthorCacheFreshness ==
    /\ (/\ ReadsRecord
        /\ RecordAtStart.present
        /\ RecordAtStart.kind \in {"org", "user"}
        /\ now - RecordAtStart.last_checked < 14) =>
            /\ cur.org_data = "notcalled"
            /\ cur.user_data = "notcalled"
            /\ cur.calls \cap {"get_org_details", "get_user_overview", "upsert_author"} = {}
            /\ cur.author_kind = RecordAtStart.kind
            /\ cur.auth_data = RecordAtStart
            /\ db_authors[cur.namespace] = RecordAtStart
    /\ (/\ ReadsRecord
        /\ ~RecordAtStart.present \/ now - RecordAtStart.last_checked >= 14) =>
            /\ "get_org_details" \in cur.calls
            /\ cur.org_data \in {"record", "empty", "none"}
    /\ (ReadsRecord /\ db_authors[cur.namespace] # RecordAtStart) =>
            /\ cur.org_data \in {"record", "empty"}
            /\ cur.org_data = "empty" => cur.user_data \in {"record", "empty"}
            /\ db_authors[cur.namespace].last_checked = now
    /\ \A n \in Namespaces :
            (run > 0 /\ db_authors[n] # hist.authors_at_start[n]) =>
                /\ n \in DOMAIN author_run_cache
                /\ n \notin hist.indeterminate

\* an individual's record checked one day before the run gave tier 2 without
\* any lookup
C27_Witness ==
    /\ ReadsRecord
    /\ RecordAtStart = [present |-> TRUE, kind |-> "user", num_followers |-> 200,
                        is_pro |-> 0, last_checked |-> 1]
    /\ now = 2
    /\ cur.calls = {"classify_namespace", "get_author"}
    /\ cur.trust_tier = 2
    /\ pc = "prefetch"

\* the analysis of the candidate in hand came back and went through the
\* evidence check
EvidenceChecked == cur.llm.result = "ok" /\ ~cur.raised /\ cur.outcome # "none"

\* C28: the evidence check changes only the confidence and the report notes
\* of an analysis result: whatever its verdict (missing, mismatch, passed) the
\* candidate is persisted with its analysis result, and it is in the report
\* exactly when its score reaches the minimum score.
C28_EvidenceOnlyRecalibrates ==
    EvidenceChecked =>
        /\ cur.report_notes \in {<<"Evidence: Missing">>, <<"Evidence: Mismatch">>,
                                 <<"Evidence: Passed">>}
        /\ cur.llm_result = [cur.llm EXCEPT !.confidence = cur.llm_result.confidence]
        /\ cur.llm_result.confidence =
                (IF cur.report_notes = <<"Evidence: Passed">> THEN cur.llm.confidence
                 ELSE "low")
        /\ (cur.llm.evidence = <<>>) = (cur.report_notes = <<"Evidence: Missing">>)
        /\ ~dry_run =>
                /\ db_models[cur.id].present
                /\ db_models[cur.id].llm_analysis =
                        [specialist_score |-> cur.llm.specialist_score,
                         confidence |-> cur.llm_result.confidence]
                /\ db_models[cur.id].report_notes = cur.report_notes
        /\ (cur.outcome = "processed") = (cur.llm.specialist_score >= MIN_SPECIALIST_SCORE)
        /\ cur.outcome \in {"processed", "skip:report_filtered"}
        /\ (cur.outcome = "processed") =
                (Len(processed_models) > 0
                    /\ processed_models[Len(processed_models)] = cur.id)

\* a candidate whose analysis cites a quote that is not in the README was
\* downgraded to low confidence, persisted, and included in the report
C28_Witness ==
    /\ EvidenceChecked
    /\ ~dry_run
    /\ cur.llm.confidence = "high"
    /\ cur.llm.evidence = <<<<"c">>>>
    /\ cur.report_notes = <<"Evidence: Mismatch">>
    /\ db_models[cur.id].llm_analysis = [specialist_score |-> 7, confidence |-> "low"]
    /\ cur.outcome = "processed"

\* C29: the export/quantization gate denies only on strong evidence: a
\* candidate with an export or quantization tag (gguf, onnx, gptq, awq) is
\* denied, and a candidate with no such tag and no export file in its listing
\* is not denied, whatever its name.
C29_ExportNeedsStrongEvidence ==
    pc = "export_checked" =>
        LET tagged == \E t \in cur.tags : TagLower(t) \in {"gguf", "onnx", "gptq", "awq"}
            export_file == \E i \in 1..Len(cur.file_details.files) :
                              cur.file_details.files[i].kind = "onnx"
            denied == InTrace(cur.filter_trace, "skip:export_conversion")
        IN  /\ tagged => denied
            /\ (~tagged /\ ~export_file) => ~denied

\* C30: a candidate whose pipeline tag or tag set signals a
\* visual-question-answering or inspection task is never skipped with
\* skip:robotics_embodied, whatever robotics terms its tags or README hold.
C30_VqaCarveOut ==
    pc = "robotics_checked" =>
        LET signals == {"visual-question-answering", "object-detection"}
        IN  (cur.pipeline \in signals \/ cur.tags \cap signals # {}) =>
                ~InTrace(cur.filter_trace, "skip:robotics_embodied")

\* C31: in dry-run mode a run performs no write to the persisted store: from
\* a freshly created database, a dry first run leaves every table as created
\* (no model record, no author record, no learned-list entry, no watermark).
C31_DryRunWritesNothing ==
    (run = 1 /\ dry_run) => DbEmpty

\* C32: a call to _request_with_backoff that never receives a 429 makes at
\* most 10 requests: it returns after exactly one request when the first
\* response has a 2xx status, raises after exactly one request on a non-429
\* 4xx status, a timeout or a connection error, and on 5xx responses only it
\* raises at the tenth request, after nine sleeps.
C32_BackoffTerminates ==
    (pc \in {"backoff", "backoff_done"} /\ cur.n429 = 0 /\ cur.asked > 0) =>
        /\ cur.asked <= 10
        /\ cur.first \in {"200", "201"} => (cur.outcome = "returned" /\ cur.asked = 1)
        /\ cur.first \in {"401", "Timeout", "ConnectionError"} =>
                (cur.outcome = "raised" /\ cur.asked = 1)
        /\ cur.server_error_count = cur.asked =>
                /\ cur.outcome = "raised" <=> cur.asked = 10
                /\ cur.sleeps = (IF cur.asked = 10 THEN 9 ELSE cur.asked)

\* C33: the exponent of the wait after a 429 response counts only the earlier
\* 429 responses of the call, the exponent after a 5xx response only the
\* earlier 5xx responses, and no base wait exceeds 3600 s.
C33_SeparateExponents ==
    (pc = "backoff" /\ cur.asked > 0 /\ cur.exponential) =>
        /\ cur.response = "429" => cur.wait_time = Backoff(cur.n429 - 1)
        /\ cur.response = "500" => cur.wait_time = Backoff(cur.server_error_count - 1)
        /\ cur.wait_time <= 3600

\* what a learned list must hold after the upserts of a log
HoldsLog(table, log) ==
    /\ Null \notin DOMAIN table
    /\ \A ns \in UpsertNamespaces \ {Null} :
          IF log[ns].n = 0 THEN ns \notin DOMAIN table
          ELSE /\ ns \in DOMAIN table
               /\ table[ns] = DynRow(log[ns].first, log[ns].reason, log[ns].max, log[ns].last)

\* C34: across any sequence of upserts into a learned list (deny or allow),
\* the list holds one row per upserted namespace whose added_at is the time of
\* the first insert, whose last_seen and reason are those of the latest
\* upsert and whose count is the largest count upserted; an empty namespace
\* is never inserted.
C34_UpsertKeepsFirstAndMax ==
    pc = "upsert" => (HoldsLog(db_dynbl, cur.deny) /\ HoldsLog(db_dynwl, cur.allow))

\* a deny-list row upserted twice, later and with a smaller count, and an
\* upsert of the empty namespace
C34_Witness ==
    /\ pc = "upsert"
    /\ cur.deny[Null].n > 0
    /\ \E ns \in DOMAIN db_dynbl :
          /\ cur.deny[ns].n >= 2
          /\ db_dynbl[ns].count > cur.deny[ns].latest
          /\ db_dynbl[ns].added_at < db_dynbl[ns].last_seen

\* C35: a namespace on the persisted learned deny-list is loaded into the
\* classifier at the start of the next run and every candidate of it in that
\* run is skipped with skip:blacklisted_namespace; after a learning pass the
\* in-memory list still holds the entries persisted earlier.
C35_PromotedDeniedNextRun ==
    /\ (run = 2 /\ pc \notin {"idle", "report", "watermark", "done"}) =>
            /\ NormalizedKeys(DOMAIN db_dynbl) \subseteq DYNAMIC_BLACKLIST
            /\ DYNAMIC_BLACKLIST \subseteq BLACKLIST
            /\ (cur.id # <<>> /\ cur.namespace \in DOMAIN db_dynbl) =>
                    cur.outcome = "skip:blacklisted_namespace"
    /\ (run > 0 /\ pc \in {"report", "watermark", "done"}) =>
            NormalizedKeys(DOMAIN db_dynbl) \subseteq DYNAMIC_BLACKLIST

\* the second run skips a candidate of the namespace that the first run
\* promoted beside an entry persisted earlier
C35_Witness ==
    /\ run = 2
    /\ pc = "loop"
    /\ cur.namespace = <<"a">>
    /\ cur.outcome = "skip:blacklisted_namespace"
    /\ DYNAMIC_BLACKLIST = {<<"a">>, <<"y">>}
    /\ db_dynbl[<<"a">>].added_at > db_dynbl[<<"y">>].added_at

\* an earlier candidate of the run, of this namespace, had its tier computed
ResolvedEarlier(namespace) ==
    \E i \in 1..(qi - 1) :
        /\ NamespaceOf(queue[i].id) = namespace
        /\ i \notin hist.raised
AuthorCalls == {"get_author", "get_org_details", "get_user_overview", "upsert_author"}

\* C36: within one run the author of a namespace is resolved at most once: a
\* candidate that reaches the tier computation after an earlier candidate of
\* its namespace had its tier computed takes kind and tier from the in-memory
\* result, reads no author record, makes no organization or individual lookup
\* and writes nothing, also when the first lookup was indeterminate.
C36_AuthorResolvedOncePerRun ==
    [][(pc = "loop" /\ pc' = "prefetch" /\ ResolvedEarlier(cur'.namespace)) =>
            /\ cur'.namespace \in DOMAIN author_run_cache
            /\ cur'.calls \cap AuthorCalls = {}
            /\ cur'.author_kind = author_run_cache[cur'.namespace].kind
            /\ cur'.trust_tier = author_run_cache[cur'.namespace].trust_tier
            /\ author_run_cache' = author_run_cache
            /\ db_authors' = db_authors]_vars

\* the second candidate of a namespace whose first lookup was indeterminate
\* goes on with the result kept in memory
C36_Witness ==
    /\ pc = "prefetch"
    /\ qi = 2
    /\ ResolvedEarlier(cur.namespace)
    /\ cur.namespace \in hist.indeterminate
    /\ "author_run_cache" \in cur.calls
    /\ cur.author_kind = "unknown"

\* the status of the last attempt of the lookup in hand
LastAnswer == cur.answers[Len(cur.answers)]

C38_DecisionOfOneInstant ==
    th_pc[Reader] = "returned" => th_seen.decision \in th_seen.valid

\* C39: when the loop of a run is over, each queued candidate has been counted
\* exactly once, as included in the report or as skipped: stats.processed +
\* stats.skipped = stats.queued, whatever ended the candidate's processing.
C39_EveryCandidateCountedOnce ==
    (run > 0 /\ pc \in {"learn", "report", "watermark", "done"} /\ ~hist.interrupted) =>
        /\ stats.processed + stats.skipped = stats.queued
        /\ stats.queued = Len(queue)
        /\ stats.processed = Len(processed_models)

\* a finished run that included one candidate and skipped the other one after
\* an exception
C39_Witness ==
    /\ pc = "done"
    /\ stats.queued = 2
    /\ stats.processed = 1
    /\ stats.skipped = 1
    /\ Get(stats.skip_reasons, "skip:exception") = 1

====
